---------------------------- MODULE Spec2Model ----------------------------
(***************************************************************************)
(* A model of packages/ckeditor5-ui/src/template.js: normalisation of a    *)
(* template definition, render() and apply() over a small DOM heap, the    *)
(* bindings to an observable, DOM event listeners and Template.extend().   *)
(***************************************************************************)
EXTENDS Integers, Sequences, FiniteSets, TLC

VARIABLES
    template,    \* the Template instance (normalised definition tree)
    observable,  \* attribute name -> current JavaScript value
    nodes,       \* the DOM heap: node id (index) -> node record
    listeners,   \* emitter.listenTo registrations, in registration order
    parents,     \* ViewCollection id -> element passed to setParent (0: none)
    fired,       \* observable.fire / callback invocations caused by DOM events
    result,      \* outcome of the last operation
    steps,       \* number of render(), apply() and extend() calls so far
    changes,     \* number of notifications and DOM events so far
    heap         \* the objects and Arrays of definitions and templates, by reference

vars == <<template, observable, nodes, listeners, parents, fired, result, steps,
          changes, heap>>

-----------------------------------------------------------------------------
(* Bounds of the model.                                                    *)

MaxSteps == 2
MaxChanges == 2
MaxLen == 3

-----------------------------------------------------------------------------
(* JavaScript values. Every value is a record [t, s]: its type and its     *)
(* string conversion, so that values of different types can be compared.   *)

Str(x)  == [t |-> "string", s |-> x]
Num0    == [t |-> "number", s |-> "0"]
JTrue   == [t |-> "boolean", s |-> "true"]
JFalse  == [t |-> "boolean", s |-> "false"]
JNull   == [t |-> "null", s |-> "null"]
JUndef  == [t |-> "undefined", s |-> "undefined"]

\* ToBoolean of a primitive value: false, null, undefined, "" and 0 are falsy.
ToBoolean(v) == ~ (v \in {JFalse, JNull, JUndef, Str(""), Num0})

\* String conversion of a primitive value.
JSToString(v) == v.s

\* isFalsy without the exception for 0: !value
isFalsy_ZeroIsFalsy(value) == ~ ToBoolean(value)

\* isFalsy( value ): !value && value !== 0
isFalsy(value) == (~ ToBoolean(value)) /\ value # Num0

\* arrayValueReducer without the test of prev: the separator is always put.
arrayValueReducer_NoPrevTest(prev, cur) ==
    IF isFalsy(cur) THEN prev
    ELSE Str(JSToString(prev) \o " " \o JSToString(cur))

\* arrayValueReducer without the test of cur: every entry is joined.
arrayValueReducer_NoSkip(prev, cur) ==
    IF isFalsy(prev) THEN cur
    ELSE Str(JSToString(prev) \o " " \o JSToString(cur))

\* arrayValueReducer( prev, cur )
arrayValueReducer(prev, cur) ==
    IF isFalsy(cur) THEN prev
    ELSE IF isFalsy(prev) THEN cur
    ELSE Str(JSToString(prev) \o " " \o JSToString(cur))

\* Array.prototype.reduce( f, init ) with f = arrayValueReducer.
RECURSIVE ReduceValues(_, _)
ReduceValues(vals, acc) ==
    IF vals = <<>> THEN acc
    ELSE ReduceValues(Tail(vals), arrayValueReducer(acc, Head(vals)))

-----------------------------------------------------------------------------
(* Items of a value schema / listener schema. All items are records with   *)
(* the same fields:                                                        *)
(*   k = "lit"   a literal JavaScript value v                              *)
(*   k = "to"    a TemplateToBinding (attribute, callback; fn = TRUE when  *)
(*               eventNameOrFunction is a function named by attribute)     *)
(*   k = "if"    a TemplateIfBinding (attribute, valueIfTrue, callback)    *)
(*   k = "ns"    { ns, value }: value holds the inner schema, isArr tells  *)
(*               whether the inner value is an Array                       *)
(*   k = "style" a style object: styles is a sequence of [name, value]     *)

Item(k, v, attribute, fn, valueIfTrue, callback, ns, value, isArr, styles) ==
    [k |-> k, v |-> v, attribute |-> attribute, fn |-> fn,
     valueIfTrue |-> valueIfTrue, callback |-> callback, ns |-> ns,
     value |-> value, isArr |-> isArr, styles |-> styles]

Lit(v) == Item("lit", v, "", FALSE, JUndef, "none", "", <<>>, FALSE, <<>>)
S(x)   == Lit(Str(x))

\* Template.bind( observable, emitter ).to( eventNameOrFunctionOrAttribute, callback )
BindTo(attribute, callback) ==
    Item("to", JUndef, attribute, FALSE, JUndef, callback, "", <<>>, FALSE, <<>>)

\* bind.to( function ): a DOM event callback
BindToFn(name) ==
    Item("to", JUndef, name, TRUE, JUndef, "none", "", <<>>, FALSE, <<>>)

\* Template.bind( observable, emitter ).if( attribute, valueIfTrue, callback )
BindIf(attribute, valueIfTrue, callback) ==
    Item("if", JUndef, attribute, FALSE, valueIfTrue, callback, "", <<>>, FALSE, <<>>)

\* String conversion of a plain object.
ObjectString == Str("[object Object]")

NsItem(ns, value, isArr) ==
    Item("ns", ObjectString, "", FALSE, JUndef, "none", ns, value, isArr, <<>>)

StyleItem(styles) ==
    Item("style", ObjectString, "", FALSE, JUndef, "none", "", <<>>, FALSE, styles)

IsBinding(item) == item.k \in {"to", "if"}

\* Truthiness of an item: objects are truthy, literals by their value.
ItemTruthy(item) == IF item.k = "lit" THEN ToBoolean(item.v) ELSE TRUE

\* isFalsy of a schema item.
isFalsyItem(item) == item.k = "lit" /\ isFalsy(item.v)

\* The transform callbacks of the model: "not" is ( value, node ) => !value.
ApplyCallback(callback, value) ==
    IF callback = "not" THEN (IF ToBoolean(value) THEN JFalse ELSE JTrue)
    ELSE value

\* TemplateBinding.getValue( domNode )
TemplateBinding_getValue(b, obs) ==
    LET value == obs[b.attribute]
    IN  IF b.callback # "none" THEN ApplyCallback(b.callback, value) ELSE value

\* valueIfTrue || true
ValueIfTrueOrTrue(valueIfTrue) ==
    IF ToBoolean(valueIfTrue) THEN valueIfTrue ELSE JTrue

\* TemplateIfBinding.getValue( domNode )
TemplateIfBinding_getValue(b, obs) ==
    LET value == TemplateBinding_getValue(b, obs)
    IN  IF isFalsy(value) THEN JFalse ELSE ValueIfTrueOrTrue(b.valueIfTrue)

\* schemaItem.getValue( domNode ), by the class of the binding.
getValue(b, obs) ==
    IF b.k = "if" THEN TemplateIfBinding_getValue(b, obs)
    ELSE TemplateBinding_getValue(b, obs)

\* hasTemplateBinding applied to one entry of a schema array.
hasTemplateBindingItem(item) ==
    CASE item.k \in {"to", "if"} -> TRUE
      [] item.k = "ns" ->
            \* valueSchema.value is truthy: the inner value is inspected
            IF item.isArr
            THEN \E i \in 1..Len(item.value) : IsBinding(item.value[i])
            ELSE IsBinding(item.value[1])
      [] OTHER -> FALSE

\* hasTemplateBinding( valueSchema ) for an Array schema.
hasTemplateBinding(valueSchema) ==
    \E i \in 1..Len(valueSchema) : hasTemplateBindingItem(valueSchema[i])

\* getValueSchemaValue( valueSchema, domNode )
getValueSchemaValue(valueSchema, obs) ==
    [i \in 1..Len(valueSchema) |->
        IF IsBinding(valueSchema[i]) THEN getValue(valueSchema[i], obs)
        ELSE valueSchema[i].v]

-----------------------------------------------------------------------------
(* The DOM. A world w = [nodes, listeners, parents, err, this, calls] is    *)
(* threaded through one synchronous call; err # "none" means an exception  *)
(* is propagating and every later statement of the call is skipped. this   *)
(* is the Template whose method runs, as the positions that lead to it     *)
(* from the root through the children; calls counts the callbacks of       *)
(* change notifications that ran.                                          *)

xhtmlNs == "http://www.w3.org/1999/xhtml"

Node(type, ns, tag) ==
    [type |-> type, ns |-> ns, tag |-> tag, attrs |-> <<>>, style |-> <<>>,
     text |-> "", childNodes |-> <<>>, parent |-> 0]

Throw(w, e) == IF w.err = "none" THEN [w EXCEPT !.err = e] ELSE w

\* Sequence helpers.
RECURSIVE SelectSeqIdx(_, _, _)
SelectSeqIdx(s, keep(_), i) ==
    IF i > Len(s) THEN <<>>
    ELSE (IF keep(s[i]) THEN <<s[i]>> ELSE <<>>) \o SelectSeqIdx(s, keep, i + 1)

Without(s, x) == SelectSeqIdx(s, LAMBDA y : y # x, 1)

IndexOfName(s, ns, name) ==
    IF \E i \in 1..Len(s) : s[i].name = name /\ s[i].ns = ns
    THEN CHOOSE i \in 1..Len(s) : s[i].name = name /\ s[i].ns = ns
    ELSE 0

\* document.createElementNS( ns, tag ), document.createTextNode( '' ),
\* document.createDocumentFragment(): the new node is the last of the heap.
CreateNode(w, type, ns, tag) ==
    IF w.err # "none" THEN w
    ELSE [w EXCEPT !.nodes = Append(@, Node(type, ns, tag))]

LastNode(w) == Len(w.nodes)

\* node.parentNode.removeChild( node ), when the node has a parent.
Detach(ns_, id) ==
    LET p == ns_[id].parent
    IN  IF p = 0 THEN ns_
        ELSE [ns_ EXCEPT ![p].childNodes = Without(@, id), ![id].parent = 0]

RECURSIVE AppendAll(_, _, _)
AppendAll(ns_, container, ids) ==
    IF ids = <<>> THEN ns_
    ELSE LET d == Detach(ns_, Head(ids))
         IN  AppendAll([d EXCEPT ![container].childNodes = Append(@, Head(ids)),
                                 ![Head(ids)].parent = container],
                       container, Tail(ids))

\* container.appendChild( child ): a DocumentFragment hands over its children.
appendChild(w, container, child) ==
    IF w.err # "none" THEN w
    ELSE IF w.nodes[container].type = "text" THEN Throw(w, "HierarchyRequestError")
    ELSE IF w.nodes[child].type = "fragment"
         THEN [w EXCEPT !.nodes = AppendAll(@, container, w.nodes[child].childNodes)]
         ELSE [w EXCEPT !.nodes = AppendAll(@, container, <<child>>)]

\* el.setAttributeNS( ns, name, value ): the value is stored as a string.
setAttributeNS(w, el, ns, name, value) ==
    IF w.err # "none" THEN w
    ELSE IF w.nodes[el].type # "element" THEN Throw(w, "TypeError")
    ELSE LET i == IndexOfName(w.nodes[el].attrs, ns, name)
             a == [ns |-> ns, name |-> name, value |-> JSToString(value)]
         IN  IF i = 0 THEN [w EXCEPT !.nodes[el].attrs = Append(@, a)]
             ELSE [w EXCEPT !.nodes[el].attrs[i] = a]

\* el.removeAttributeNS( ns, name )
removeAttributeNS(w, el, ns, name) ==
    IF w.err # "none" THEN w
    ELSE IF w.nodes[el].type # "element" THEN Throw(w, "TypeError")
    ELSE [w EXCEPT !.nodes[el].attrs =
            SelectSeqIdx(@, LAMBDA a : ~ (a.name = name /\ a.ns = ns), 1)]

\* el.style[ styleName ] = value: null and '' remove the property.
setStyle(w, el, styleName, value) ==
    IF w.err # "none" THEN w
    ELSE IF w.nodes[el].type # "element" THEN Throw(w, "TypeError")
    ELSE LET i == IndexOfName(w.nodes[el].style, "", styleName)
             a == [ns |-> "", name |-> styleName, value |-> JSToString(value)]
         IN  IF value \in {JNull, Str("")}
             THEN [w EXCEPT !.nodes[el].style =
                     SelectSeqIdx(@, LAMBDA x : x.name # styleName, 1)]
             ELSE IF i = 0 THEN [w EXCEPT !.nodes[el].style = Append(@, a)]
             ELSE [w EXCEPT !.nodes[el].style[i] = a]

RECURSIVE DetachAll(_, _)
DetachAll(ns_, ids) ==
    IF ids = <<>> THEN ns_ ELSE DetachAll(Detach(ns_, Head(ids)), Tail(ids))

\* node.textContent = value. On a Text node the data is replaced; on an
\* element (or fragment) all children are replaced by one new Text node,
\* or by nothing when the string is empty. null is the empty string.
setTextContent(w, node, value) ==
    IF w.err # "none" THEN w
    ELSE LET str == IF value = JNull THEN "" ELSE JSToString(value)
         IN  IF w.nodes[node].type = "text"
             THEN [w EXCEPT !.nodes[node].text = str]
             ELSE LET cleared == DetachAll(w.nodes, w.nodes[node].childNodes)
                  IN  IF str = "" THEN [w EXCEPT !.nodes = cleared]
                      ELSE [w EXCEPT !.nodes =
                              AppendAll(Append(cleared, [Node("text", "", "") EXCEPT !.text = str]),
                                        node, <<Len(cleared) + 1>>)]

-----------------------------------------------------------------------------
(* Definitions and templates.                                              *)
(* A raw value of a definition is [isArr, items]: an Array of items, or a  *)
(* single item that is not an Array (undefined is the literal undefined).  *)

Arr(items) == [isArr |-> TRUE, items |-> items]
One(item)  == [isArr |-> FALSE, items |-> <<item>>]
Undefined  == One(Lit(JUndef))

RawTruthy(r) == r.isArr \/ ItemTruthy(r.items[1])

\* A definition object { tag, ns, text, attributes, children, on }.
\* attributes and on are sequences of [name, value] in key order (the name of
\* a listener is its key as a sequence of characters); children is a
\* sequence of child definitions. A definition with text carries no
\* attributes and no children in this model.
Def(tag, text, attributes, children, on) ==
    [form |-> "object", str |-> "", tag |-> tag, ns |-> JUndef, text |-> text,
     attributes |-> attributes, children |-> children, on |-> on]

\* A definition that is a plain string.
StrDef(str) ==
    [form |-> "string", str |-> str, tag |-> JUndef, ns |-> JUndef,
     text |-> Undefined, attributes |-> <<>>, children |-> <<>>, on |-> <<>>]

\* Children of a definition: a definition, a View or (as the whole children
\* property) a ViewCollection.
ChildDef(def)          == [kind |-> "def", def |-> def]
ChildView(element)     == [kind |-> "view", element |-> element]
ChildCollection(id, views) == [kind |-> "collection", id |-> id, views |-> views]

\* normalizePlainTextDefinition( def )
normalizePlainTextDefinition(def) ==
    [form |-> "object", str |-> "", tag |-> JUndef, ns |-> JUndef,
     text |-> Arr(<<S(def.str)>>), attributes |-> <<>>, children |-> <<>>,
     on |-> <<>>]

\* normalizeTextDefinition( def )
normalizeTextDefinition(def) ==
    IF ~ def.text.isArr THEN [def EXCEPT !.text = Arr(<<def.text.items[1]>>)]
    ELSE def

\* arrayify( obj, key )
arrayify(r) == IF ~ r.isArr THEN <<r.items[1]>> ELSE r.items

\* The truthiness of attrs[ a ].value: only a { ns, value } object that is
\* not inside an Array has the property.
HasValueProperty(r) ==
    /\ ~ r.isArr
    /\ r.items[1].k = "ns"
    /\ (r.items[1].isArr \/ ItemTruthy(r.items[1].value[1]))

\* normalizeAttributes( attrs )
normalizeAttributes(attrs) ==
    [i \in 1..Len(attrs) |->
        [name |-> attrs[i].name,
         value |-> IF HasValueProperty(attrs[i].value)
                   THEN <<[attrs[i].value.items[1] EXCEPT !.isArr = TRUE]>>
                   ELSE arrayify(attrs[i].value)]]

\* normalizeListeners( listeners )
normalizeListeners(on) ==
    [i \in 1..Len(on) |->
        [name |-> on[i].name, value |-> arrayify(on[i].value)]]

\* normalize( def ) and, for the children, new Template( child ).
\* The result is a Template: text is a raw value, attributes and
\* eventListeners hold Arrays, children is the Collection (hasChildren tells
\* whether the Collection was created).
RECURSIVE normalize(_)
normalize(def0) ==
    LET def  == IF def0.form = "string" THEN normalizePlainTextDefinition(def0)
                ELSE IF RawTruthy(def0.text) THEN normalizeTextDefinition(def0)
                ELSE def0
        isEl == ~ RawTruthy(def.text)
    IN  [tag |-> def.tag, ns |-> def.ns, text |-> def.text,
         attributes |-> IF isEl THEN normalizeAttributes(def.attributes) ELSE <<>>,
         eventListeners |-> normalizeListeners(def.on),
         hasChildren |-> isEl,
         children |->
            IF isEl
            THEN [i \in 1..Len(def.children) |->
                    IF def.children[i].kind = "def"
                    THEN [kind |-> "template", tpl |-> normalize(def.children[i].def)]
                    ELSE def.children[i]]
            ELSE <<>>]

-----------------------------------------------------------------------------
(* Rendering. Every operator takes the world w and returns the world after *)
(* the call; renderNode also returns the node.                             *)

\* Sequencing: F applied to the value of v.
Then(v, F(_)) == CHOOSE r \in {F(x) : x \in {v}} : TRUE

\* getTextUpdater, getAttributeUpdater, getStyleUpdater
getTextUpdater == [kind |-> "text", name |-> "", ns |-> ""]
getAttributeUpdater(attrName, ns) == [kind |-> "attr", name |-> attrName, ns |-> ns]
getStyleUpdater(styleName) == [kind |-> "style", name |-> styleName, ns |-> ""]

\* domUpdater.set( value ) adding to what the target holds instead of
\* replacing it.
UpdaterSet_Append(w, node, u, value) ==
    CASE u.kind = "text"  ->
            setTextContent(w, node,
                IF w.nodes[node].type = "text"
                THEN Str(w.nodes[node].text \o JSToString(value)) ELSE value)
      [] u.kind = "attr"  ->
            setAttributeNS(w, node, u.ns, u.name,
                IF IndexOfName(w.nodes[node].attrs, u.ns, u.name) = 0 THEN value
                ELSE Str(w.nodes[node].attrs[IndexOfName(w.nodes[node].attrs, u.ns, u.name)].value
                         \o " " \o JSToString(value)))
      [] u.kind = "style" -> setStyle(w, node, u.name, value)

\* domUpdater.set( value )
UpdaterSet(w, node, u, value) ==
    CASE u.kind = "text"  -> setTextContent(w, node, value)
      [] u.kind = "attr"  -> setAttributeNS(w, node, u.ns, u.name, value)
      [] u.kind = "style" -> setStyle(w, node, u.name, value)

\* domUpdater.remove() of a style property clearing the whole inline style.
UpdaterRemove_ClearsStyle(w, node, u) ==
    CASE u.kind = "text"  -> setTextContent(w, node, Str(""))
      [] u.kind = "attr"  -> removeAttributeNS(w, node, u.ns, u.name)
      [] u.kind = "style" ->
            IF w.err # "none" THEN w ELSE [w EXCEPT !.nodes[node].style = <<>>]

\* domUpdater.remove()
UpdaterRemove(w, node, u) ==
    CASE u.kind = "text"  -> setTextContent(w, node, Str(""))
      [] u.kind = "attr"  -> removeAttributeNS(w, node, u.ns, u.name)
      [] u.kind = "style" -> setStyle(w, node, u.name, JNull)

\* The value syncValueSchemaValue computes from the schema.
SchemaValue(valueSchema, obs) ==
    IF Len(valueSchema) = 1 /\ valueSchema[1].k = "if"
    THEN getValueSchemaValue(valueSchema, obs)[1]
    ELSE ReduceValues(getValueSchemaValue(valueSchema, obs), Str(""))

\* syncValueSchemaValue that never calls domUpdater.remove().
syncValueSchemaValue_NoRemove(w, valueSchema, node, u, obs) ==
    Then(SchemaValue(valueSchema, obs), LAMBDA value :
        IF isFalsy(value) THEN w
        ELSE UpdaterSet(w, node, u, value))

\* syncValueSchemaValue( valueSchema, domNode, domUpdater )
syncValueSchemaValue(w, valueSchema, node, u, obs) ==
    Then(SchemaValue(valueSchema, obs), LAMBDA value :
        IF isFalsy(value) THEN UpdaterRemove(w, node, u)
        ELSE UpdaterSet(w, node, u, value))

\* TemplateBinding.activateAttributeListener( valueSchema, node, updater )
activateAttributeListener(w, binding, valueSchema, node, u) ==
    IF w.err # "none" THEN w
    ELSE [w EXCEPT !.listeners = Append(@,
            [kind |-> "change", attribute |-> binding.attribute,
             valueSchema |-> valueSchema, node |-> node, updater |-> u,
             \* the closure holds the Array of the template itself (this.text,
             \* this.attributes[ name ] or its first entry's value), except
             \* the [ styleValue ] made for a style property
             this |-> w.this, shared |-> u.kind # "style"])]

\* _bindToObservable registering one listener per attribute of the
\* observable instead of one per binding.
RECURSIVE ActivateAll_OncePerAttribute(_, _, _, _, _)
ActivateAll_OncePerAttribute(w, valueSchema, i, node, u) ==
    IF i > Len(valueSchema) THEN w
    ELSE IF IsBinding(valueSchema[i])
            /\ ~ \E j \in 1..(i - 1) : /\ IsBinding(valueSchema[j])
                                       /\ valueSchema[j].attribute = valueSchema[i].attribute
    THEN Then(activateAttributeListener(w, valueSchema[i], valueSchema, node, u),
              LAMBDA w1 : ActivateAll_OncePerAttribute(w1, valueSchema, i + 1, node, u))
    ELSE ActivateAll_OncePerAttribute(w, valueSchema, i + 1, node, u)

\* The filter( ... ).filter( ... ).forEach( ... ) of _bindToObservable.
RECURSIVE ActivateAll(_, _, _, _, _)
ActivateAll(w, valueSchema, i, node, u) ==
    IF i > Len(valueSchema) THEN w
    ELSE IF (~ isFalsyItem(valueSchema[i])) /\ IsBinding(valueSchema[i])
    THEN Then(activateAttributeListener(w, valueSchema[i], valueSchema, node, u),
              LAMBDA w1 : ActivateAll(w1, valueSchema, i + 1, node, u))
    ELSE ActivateAll(w, valueSchema, i + 1, node, u)

\* Template._bindToObservable( valueSchema, node, domUpdater ); a schema that
\* is not an Array has no filter method.
bindToObservable(w, valueSchema, isArr, node, u, obs) ==
    IF w.err # "none" THEN w
    ELSE IF ~ isArr THEN Throw(w, "TypeError")
    ELSE Then(ActivateAll(w, valueSchema, 1, node, u),
              LAMBDA w1 : syncValueSchemaValue(w1, valueSchema, node, u, obs))

\* Array.prototype.join( '' ): null and undefined give the empty string.
RECURSIVE JoinText(_)
JoinText(items) ==
    IF items = <<>> THEN ""
    ELSE (IF items[1].k = "lit" /\ items[1].v \in {JNull, JUndef} THEN ""
          ELSE JSToString(items[1].v)) \o JoinText(Tail(items))

\* The body of Template._renderText for the Text node.
renderTextInto(w, t, node, obs) ==
    IF hasTemplateBinding(t.text.items)
    THEN bindToObservable(w, t.text.items, TRUE, node, getTextUpdater, obs)
    ELSE setTextContent(w, node, Str(JoinText(t.text.items)))

\* Template._renderText( textNode = document.createTextNode( '' ) )
renderText(w, t, applyNode, obs) ==
    IF applyNode = 0
    THEN Then(CreateNode(w, "text", "", ""), LAMBDA w1 :
            [w |-> renderTextInto(w1, t, LastNode(w1), obs), node |-> LastNode(w1)])
    ELSE [w |-> renderTextInto(w, t, applyNode, obs), node |-> applyNode]

\* One iteration of the loop of Template._renderStyleAttribute.
renderStyle(w, style, el, obs) ==
    IF hasTemplateBindingItem(style.value)
    THEN bindToObservable(w, <<style.value>>, TRUE, el, getStyleUpdater(style.name), obs)
    ELSE setStyle(w, el, style.name, style.value.v)

\* Template._renderStyleAttribute( styles, el )
RECURSIVE renderStyleAttribute(_, _, _, _, _)
renderStyleAttribute(w, styles, i, el, obs) ==
    IF i > Len(styles) \/ w.err # "none" THEN w
    ELSE Then(renderStyle(w, styles[i], el, obs),
              LAMBDA w1 : renderStyleAttribute(w1, styles, i + 1, el, obs))

\* .map( v => v ? ( v.value || v ) : v ).reduce( ( p, n ) => p.concat( n ), [] )
RECURSIVE StaticValues(_)
StaticValues(attrValue) ==
    IF attrValue = <<>> THEN <<>>
    ELSE (IF attrValue[1].k = "ns" /\ (attrValue[1].isArr \/ ItemTruthy(attrValue[1].value[1]))
          THEN [j \in 1..Len(attrValue[1].value) |-> attrValue[1].value[j].v]
          ELSE <<attrValue[1].v>>) \o StaticValues(Tail(attrValue))

\* isObject( attrValue[ 0 ] ) && attrValue[ 0 ].ns ? attrValue[ 0 ].ns : null,
\* with "" for null.
AttrNs(attrValue) ==
    IF attrValue # <<>> /\ attrValue[1].k = "ns" /\ attrValue[1].ns # ""
    THEN attrValue[1].ns ELSE ""

\* The static branch of Template._renderAttributes.
renderStaticAttribute(w, attrName, value, attrNs, el) ==
    IF ~ isFalsy(value) THEN setAttributeNS(w, el, attrNs, attrName, value) ELSE w

\* One iteration of the loop of Template._renderAttributes( el ).
renderAttribute(w, attrName, attrValue, el, obs) ==
    IF hasTemplateBinding(attrValue)
    THEN bindToObservable(w,
            IF AttrNs(attrValue) # "" THEN attrValue[1].value ELSE attrValue,
            IF AttrNs(attrValue) # "" THEN attrValue[1].isArr ELSE TRUE,
            el, getAttributeUpdater(attrName, AttrNs(attrValue)), obs)
    ELSE IF attrName = "style"
            /\ ~ (attrValue # <<>> /\ attrValue[1].k = "lit" /\ attrValue[1].v.t = "string")
    THEN renderStyleAttribute(w, IF attrValue = <<>> THEN <<>> ELSE attrValue[1].styles,
                              1, el, obs)
    ELSE renderStaticAttribute(w, attrName, ReduceValues(StaticValues(attrValue), Str("")),
                               AttrNs(attrValue), el)

\* Template._renderAttributes( el )
RECURSIVE renderAttributes(_, _, _, _, _)
renderAttributes(w, attributes, i, el, obs) ==
    IF i > Len(attributes) \/ w.err # "none" THEN w
    ELSE Then(renderAttribute(w, attributes[i].name, attributes[i].value, el, obs),
              LAMBDA w1 : renderAttributes(w1, attributes, i + 1, el, obs))

\* key.split( '@' ) on a key given as a sequence of characters.
RECURSIVE Split(_, _)
Split(key, cur) ==
    IF key = <<>> THEN <<cur>>
    ELSE IF Head(key) = "@" THEN <<cur>> \o Split(Tail(key), <<>>)
    ELSE Split(Tail(key), Append(cur, Head(key)))

\* TemplateToBinding.activateDomEventListener( el, domEvtName, domSelector );
\* only a TemplateToBinding has the method. parts is key.split( '@' ).
activateDomEventListener(w, schemaItem, el, parts) ==
    IF w.err # "none" THEN w
    ELSE IF schemaItem.k # "to" THEN Throw(w, "TypeError")
    ELSE [w EXCEPT !.listeners = Append(@,
            [kind |-> "dom", node |-> el, domEvtName |-> parts[1],
             hasSelector |-> Len(parts) >= 2,
             domSelector |-> IF Len(parts) >= 2 THEN parts[2] ELSE <<>>,
             binding |-> schemaItem])]

\* this.eventListeners[ key ].forEach( ... )
RECURSIVE ActivateDomAll(_, _, _, _, _)
ActivateDomAll(w, schema, i, el, parts) ==
    IF i > Len(schema) THEN w
    ELSE Then(activateDomEventListener(w, schema[i], el, parts),
              LAMBDA w1 : ActivateDomAll(w1, schema, i + 1, el, parts))

\* Template._setUpListeners( el )
RECURSIVE setUpListeners(_, _, _, _)
setUpListeners(w, eventListeners, i, el) ==
    IF i > Len(eventListeners) \/ w.err # "none" THEN w
    ELSE Then(ActivateDomAll(w, eventListeners[i].value, 1, el,
                             Split(eventListeners[i].name, <<>>)),
              LAMBDA w1 : setUpListeners(w1, eventListeners, i + 1, el))

\* container.appendChild( node ) for each node of a sequence.
RECURSIVE AppendNodes(_, _, _)
AppendNodes(w, container, ids) ==
    IF ids = <<>> THEN w
    ELSE Then(appendChild(w, container, Head(ids)),
              LAMBDA w1 : AppendNodes(w1, container, Tail(ids)))

\* child.setParent( element )
setParent(w, id, element) ==
    IF w.err # "none" THEN w ELSE [w EXCEPT !.parents[id] = element]

\* container.childNodes[ index ] with a 0-based index; 0 is undefined.
ChildNodeAt(w, container, index) ==
    IF index + 1 <= Len(w.nodes[container].childNodes)
    THEN w.nodes[container].childNodes[index + 1] ELSE 0

RECURSIVE renderNode(_, _, _, _, _)

\* One iteration of the loop of Template._renderElementChildren. A View or a
\* ViewCollection is appended unless applying; a Template child is applied
\* to container.childNodes[ childIndex ] (and childIndex incremented) when
\* applying, rendered and appended otherwise.
renderChild(w, child, childIndex, element, container, shouldApply, obs) ==
    CASE child.kind = "collection" ->
            IF ~ shouldApply
            THEN AppendNodes(setParent(w, child.id, element), container, child.views)
            ELSE w
      [] child.kind = "view" ->
            IF ~ shouldApply THEN AppendNodes(w, container, <<child.element>>) ELSE w
      [] OTHER ->
            Then(renderNode(w, child.tpl,
                            IF shouldApply THEN ChildNodeAt(w, container, childIndex) ELSE 0,
                            ~ shouldApply, obs),
                 LAMBDA r : IF shouldApply THEN r.w
                            ELSE AppendNodes(r.w, container, <<r.node>>))

\* Template._renderElementChildren( element, container, shouldApply ): i is
\* the position in this.children, childIndex the counter of the loop.
RECURSIVE renderElementChildren(_, _, _, _, _, _, _, _)
renderElementChildren(w, children, i, childIndex, element, container, shouldApply, obs) ==
    IF i > Len(children) \/ w.err # "none" THEN w
    ELSE Then(renderChild([w EXCEPT !.this = Append(@, i)], children[i], childIndex,
                          element, container, shouldApply, obs),
              LAMBDA w1 : renderElementChildren([w1 EXCEPT !.this = w.this], children, i + 1,
                            IF children[i].kind = "template" /\ shouldApply
                            THEN childIndex + 1 ELSE childIndex,
                            element, container, shouldApply, obs))

\* Template._renderElement( applyElement, intoFragment ) once el is known:
\* the world holds el and, when intoFragment, the new DocumentFragment as
\* its last node.
renderElementInto(w, t, el, isApply, intoFragment, obs) ==
    Then(renderAttributes(w, t.attributes, 1, el, obs), LAMBDA w2 :
    Then(IF intoFragment THEN CreateNode(w2, "fragment", "", "") ELSE w2, LAMBDA wf :
    Then(renderElementChildren(wf, t.children, 1, 0, el,
                               IF intoFragment THEN LastNode(wf) ELSE el,
                               isApply, obs), LAMBDA w3 :
    Then(IF intoFragment THEN AppendNodes(w3, el, <<LastNode(wf)>>) ELSE w3, LAMBDA w4 :
        [w |-> setUpListeners(w4, t.eventListeners, 1, el), node |-> el]))))

\* Template._renderElement( applyElement, intoFragment )
renderElement(w, t, applyElement, intoFragment, obs) ==
    Then(IF applyElement = 0
         THEN CreateNode(w, "element",
                         IF ToBoolean(t.ns) THEN JSToString(t.ns) ELSE xhtmlNs,
                         JSToString(t.tag))
         ELSE w,
         LAMBDA w1 : renderElementInto(w1, t,
                        IF applyElement = 0 THEN LastNode(w1) ELSE applyElement,
                        applyElement # 0, intoFragment, obs))

\* The validity test with the rule of apply used for render too.
isInvalid_ApplyRuleOnly(t, applyNode) ==
    ToBoolean(t.tag) /\ RawTruthy(t.text)

\* The validity test with the rule of render used for apply too.
isInvalid_RenderRuleOnly(t, applyNode) ==
    IF ToBoolean(t.tag) THEN RawTruthy(t.text) ELSE ~ RawTruthy(t.text)

\* The validity test of Template._renderNode( applyNode, intoFragment ).
isInvalid(t, applyNode) ==
    IF applyNode # 0
    THEN ToBoolean(t.tag) /\ RawTruthy(t.text)
    ELSE IF ToBoolean(t.tag) THEN RawTruthy(t.text) ELSE ~ RawTruthy(t.text)

\* Template._renderNode( applyNode, intoFragment )
renderNode(w, t, applyNode, intoFragment, obs) ==
    IF w.err # "none" THEN [w |-> w, node |-> 0]
    ELSE IF isInvalid(t, applyNode)
    THEN [w |-> Throw(w, "InvalidDefinition"), node |-> 0]
    ELSE IF RawTruthy(t.text) THEN renderText(w, t, applyNode, obs)
    ELSE renderElement(w, t, applyNode, intoFragment, obs)

-----------------------------------------------------------------------------
(* Template.extend.                                                        *)

KeyIndex(obj, name) ==
    IF \E i \in 1..Len(obj) : obj[i].name = name
    THEN CHOOSE i \in 1..Len(obj) : obj[i].name = name
    ELSE 0

\* extendObjectValueArray assigning ext[ a ] whether obj has the key or not.
ExtendKey_Replace(obj, entry) ==
    LET i == KeyIndex(obj, entry.name)
    IN  IF i # 0 THEN [obj EXCEPT ![i].value = entry.value]
        ELSE Append(obj, entry)

\* One iteration of extendObjectValueArray: obj[ a ].push( ...ext[ a ] ) when
\* obj has the key, obj[ a ] = ext[ a ] otherwise.
ExtendKey(obj, entry) ==
    LET i == KeyIndex(obj, entry.name)
    IN  IF i # 0 THEN [obj EXCEPT ![i].value = @ \o entry.value]
        ELSE Append(obj, entry)

\* extendObjectValueArray( obj, ext )
RECURSIVE extendObjectValueArray(_, _)
extendObjectValueArray(obj, ext) ==
    IF ext = <<>> THEN obj
    ELSE extendObjectValueArray(ExtendKey(obj, Head(ext)), Tail(ext))

\* The test of the children counts failing only a fragment with more
\* children than the template.
ChildrenMismatch_OnlyWhenFewer(template_, def) ==
    def.children # <<>> /\ Len(template_.children) < Len(def.children)

\* The test that guards the children loop of extendTemplate.
ChildrenMismatch(template_, def) ==
    def.children # <<>> /\ Len(template_.children) # Len(def.children)

RECURSIVE extendTemplate(_, _)
RECURSIVE extendChildren(_, _, _)

\* The for loop of extendTemplate over def.children: r = [tpl, err].
extendChildren(r, defChildren, i) ==
    IF i > Len(defChildren) \/ r.err # "none" THEN r
    ELSE LET target == r.tpl.children[i]
             childDef == defChildren[i].tpl
         IN  IF target.kind = "template"
             THEN Then(extendTemplate(target.tpl, childDef), LAMBDA c :
                     extendChildren(
                         [tpl |-> [r.tpl EXCEPT !.children[i].tpl = c.tpl],
                          err |-> c.err],
                         defChildren, i + 1))
             \* a View or ViewCollection has no text Array and no children
             \* Collection of its own
             ELSE IF RawTruthy(childDef.text) \/ childDef.children # <<>>
             THEN [r EXCEPT !.err = "TypeError"]
             ELSE extendChildren(r, defChildren, i + 1)

\* extendTemplate( template, def ): the template after the call and the
\* error thrown, if any; what was extended before the throw stays extended.
extendTemplate(template_, def) ==
    LET t1 == [template_ EXCEPT
                 !.attributes = extendObjectValueArray(@, def.attributes),
                 !.eventListeners = extendObjectValueArray(@, def.eventListeners)]
    IN  IF RawTruthy(def.text) /\ ~ t1.text.isArr
        THEN [tpl |-> t1, err |-> "TypeError"]
        ELSE LET t2 == IF RawTruthy(def.text)
                       THEN [t1 EXCEPT !.text.items = @ \o def.text.items]
                       ELSE t1
             IN  IF def.children = <<>> THEN [tpl |-> t2, err |-> "none"]
                 ELSE IF ~ t2.hasChildren THEN [tpl |-> t2, err |-> "TypeError"]
                 ELSE IF ChildrenMismatch(t2, def)
                 THEN [tpl |-> t2, err |-> "ChildCountMismatch"]
                 ELSE extendChildren([tpl |-> t2, err |-> "none"], def.children, 1)

\* The Array a callback of activateAttributeListener holds, found in the
\* template: that of the Template at path, for the target of the updater.
RECURSIVE SchemaAt(_, _, _)
SchemaAt(t, path, u) ==
    IF path # <<>> THEN SchemaAt(t.children[Head(path)].tpl, Tail(path), u)
    ELSE IF u.kind = "text" THEN t.text.items
    ELSE IF u.ns # "" THEN t.attributes[KeyIndex(t.attributes, u.name)].value[1].value
    ELSE t.attributes[KeyIndex(t.attributes, u.name)].value

\* The registrations after extend(): push() has changed the Arrays the
\* callbacks hold.
Realias(ls, t) ==
    [i \in 1..Len(ls) |->
        IF ls[i].kind = "change" /\ ls[i].shared
        THEN [ls[i] EXCEPT !.valueSchema = SchemaAt(t, ls[i].this, ls[i].updater)]
        ELSE ls[i]]

\* The registrations once the Template they were made for is replaced by a
\* new one: their Arrays are out of the reach of extend().
Detached(ls) ==
    [i \in 1..Len(ls) |->
        IF ls[i].kind = "change" THEN [ls[i] EXCEPT !.shared = FALSE] ELSE ls[i]]

-----------------------------------------------------------------------------
(* Objects by reference. The heap is a sequence of cells, a reference the  *)
(* index of a cell. A cell is an object (names and values of its           *)
(* properties) or an Array (values). A value is a reference to a cell, or  *)
(* an item that is never changed: a primitive, a binding or a View.        *)

Imm(item) == [ref |-> 0, item |-> item]
Ref(ref)  == [ref |-> ref, item |-> Lit(JUndef)]
JsUndefined == Imm(Lit(JUndef))

Cell(kind, class, names, values) ==
    [kind |-> kind, class |-> class, names |-> names, values |-> values]

\* A View as a value: its element is node 1 or node 2.
ViewItem(element) ==
    Item("view", [t |-> "view", s |-> IF element = 1 THEN "1" ELSE "2"], "", FALSE,
         JUndef, "none", "", <<>>, FALSE, <<>>)

\* new Object / new Array: the cells with the new cell, and the reference.
Allocated(cells, cell) ==
    [cells |-> Append(cells, cell), value |-> Ref(Len(cells) + 1)]

\* object[ name ]
Get(cells, value, name) ==
    IF value.ref = 0 THEN JsUndefined
    ELSE LET cell == cells[value.ref]
         IN  IF \E i \in 1..Len(cell.names) : cell.names[i] = name
             THEN cell.values[CHOOSE i \in 1..Len(cell.names) : cell.names[i] = name]
             ELSE JsUndefined

\* object[ name ] = value
Set(cells, ref, name, value) ==
    IF \E i \in 1..Len(cells[ref].names) : cells[ref].names[i] = name
    THEN [cells EXCEPT ![ref].values[CHOOSE i \in 1..Len(cells[ref].names) :
                                         cells[ref].names[i] = name] = value]
    ELSE [cells EXCEPT ![ref].names = Append(@, name), ![ref].values = Append(@, value)]

\* delete object[ name ]
Delete(cells, ref, name) ==
    LET keep == {i \in 1..Len(cells[ref].names) : cells[ref].names[i] # name}
        Kept(s) == SelectSeqIdx([i \in 1..Len(s) |-> [i |-> i, x |-> s[i]]],
                                LAMBDA e : e.i \in keep, 1)
    IN  [cells EXCEPT ![ref].names = [j \in 1..Len(Kept(@)) |-> Kept(@)[j].x],
                      ![ref].values = [j \in 1..Len(Kept(@)) |-> Kept(@)[j].x]]

\* The truthiness of a value: an object is truthy.
Truthy(value) == value.ref # 0 \/ ItemTruthy(value.item)

\* Array.isArray( value )
IsArray(cells, value) == value.ref # 0 /\ cells[value.ref].kind = "array"

\* An object literal: the properties whose value is undefined are left out.
ObjectLiteral(class, names, values) ==
    LET defined == SelectSeqIdx([i \in 1..Len(names) |->
                                    [name |-> names[i], value |-> values[i]]],
                                LAMBDA p : p.value # JsUndefined, 1)
    IN  Cell("object", class, [i \in 1..Len(defined) |-> defined[i].name],
             [i \in 1..Len(defined) |-> defined[i].value])

\* The definition a caller writes, as objects of the heap: the result is the
\* cells and the value of the definition (a string is its own value).
RECURSIVE StoreDef(_, _)
RECURSIVE StoreAll(_, _, _, _, _)

\* The children (what = "child": a View is its own value) or the values of
\* the properties of an object (what = "raw": an Array of items or one
\* item), stored one after the other.
StoreAll(cells, what, xs, i, acc) ==
    IF i > Len(xs) THEN [cells |-> cells, value |-> acc]
    ELSE Then(IF what = "child"
              THEN IF xs[i].kind = "view"
                   THEN [cells |-> cells, value |-> Imm(ViewItem(xs[i].element))]
                   ELSE StoreDef(cells, xs[i].def)
              ELSE IF xs[i].value.isArr
              THEN Allocated(cells, Cell("array", "Array", <<>>,
                                 [j \in 1..Len(xs[i].value.items) |->
                                     Imm(xs[i].value.items[j])]))
              ELSE [cells |-> cells, value |-> Imm(xs[i].value.items[1])],
              LAMBDA r : StoreAll(r.cells, what, xs, i + 1, Append(acc, r.value)))

\* [ child, ... ] or { name: value, ... }; undefined when there is none.
StoreMany(cells, what, xs) ==
    IF xs = <<>> THEN [cells |-> cells, value |-> JsUndefined]
    ELSE Then(StoreAll(cells, what, xs, 1, <<>>), LAMBDA r :
            Allocated(r.cells,
                      IF what = "child" THEN Cell("array", "Array", <<>>, r.value)
                      ELSE Cell("object", "Object",
                                [i \in 1..Len(xs) |-> xs[i].name], r.value)))

StoreDef(cells, def) ==
    IF def.form = "string" THEN [cells |-> cells, value |-> Imm(S(def.str))]
    ELSE Then(StoreAll(cells, "raw", <<[name |-> "text", value |-> def.text]>>, 1, <<>>),
              LAMBDA t :
         Then(StoreMany(t.cells, "raw", def.attributes), LAMBDA a :
         Then(StoreMany(a.cells, "raw", def.on), LAMBDA o :
         Then(StoreMany(o.cells, "child", def.children), LAMBDA c :
            Allocated(c.cells,
                ObjectLiteral("Object", <<"tag", "text", "attributes", "on", "children">>,
                              <<Imm(Lit(def.tag)), t.value[1], a.value, o.value,
                                c.value>>))))))

\* cloneDeepWith copying the object itself only: its properties are shared.
clone_Shallow(cells, value) ==
    IF value.ref = 0 THEN [cells |-> cells, value |-> value]
    ELSE Allocated(cells, cells[value.ref])

\* clone( def ): cloneDeepWith whose customizer returns a TemplateBinding, a
\* View or a ViewCollection as it is; objects and Arrays are copied with
\* what they hold, primitives are values.
RECURSIVE clone(_, _)
RECURSIVE CloneAll(_, _, _, _)
CloneAll(cells, values, i, acc) ==
    IF i > Len(values) THEN [cells |-> cells, value |-> acc]
    ELSE Then(clone(cells, values[i]),
              LAMBDA r : CloneAll(r.cells, values, i + 1, Append(acc, r.value)))
clone(cells, value) ==
    IF value.ref = 0 THEN [cells |-> cells, value |-> value]
    ELSE Then(CloneAll(cells, cells[value.ref].values, 1, <<>>), LAMBDA r :
            Allocated(r.cells, [cells[value.ref] EXCEPT !.values = r.value]))

\* arrayify( obj, key ) for every key of obj from the i-th on: a value that
\* is not an Array is replaced, in obj, by a new Array holding it. (The
\* definitions that are kept by reference hold no { ns, value } object.)
RECURSIVE ArrayifyAll(_, _, _)
ArrayifyAll(cells, ref, i) ==
    IF i > Len(cells[ref].names) THEN cells
    ELSE IF IsArray(cells, cells[ref].values[i]) THEN ArrayifyAll(cells, ref, i + 1)
    ELSE ArrayifyAll([Append(cells, Cell("array", "Array", <<>>, <<cells[ref].values[i]>>))
                         EXCEPT ![ref].values[i] = Ref(Len(cells) + 1)], ref, i + 1)

RECURSIVE normalizeRef(_, _)
RECURSIVE TemplateRef(_, _)
RECURSIVE AddChildren(_, _, _, _, _)

\* The children of normalize: a View is added to the new Collection as it
\* is, of any other child a new Template is made and added; then
\* def.children = children.
AddChildren(cells, def, children, i, acc) ==
    IF i > Len(children)
    THEN Then(Allocated(cells, Cell("array", "Collection", <<>>, acc)), LAMBDA c :
            Set(c.cells, def.ref, "children", c.value))
    ELSE IF children[i].ref = 0 /\ children[i].item.k = "view"
    THEN AddChildren(cells, def, children, i + 1, Append(acc, children[i]))
    ELSE Then(TemplateRef(cells, children[i]),
              LAMBDA r : AddChildren(r.cells, def, children, i + 1, Append(acc, r.value)))

\* normalize( def ) on the object def refers to: the object is changed in
\* place and returned (a string gives a new object).
normalizeRef(cells, def0) ==
    \* normalizePlainTextDefinition( def ), normalizeTextDefinition( def )
    Then(IF def0.ref = 0
         THEN Then(Allocated(cells, Cell("array", "Array", <<>>, <<def0>>)), LAMBDA a :
                 Allocated(a.cells, Cell("object", "Object", <<"text">>, <<a.value>>)))
         ELSE IF Truthy(Get(cells, def0, "text")) /\ ~ IsArray(cells, Get(cells, def0, "text"))
         THEN Then(Allocated(cells, Cell("array", "Array", <<>>, <<Get(cells, def0, "text")>>)),
                   LAMBDA a : [cells |-> Set(a.cells, def0.ref, "text", a.value),
                               value |-> def0])
         ELSE [cells |-> cells, value |-> def0], LAMBDA t :
    \* def.eventListeners = normalizeListeners( def.on ); delete def.on
    Then(IF Truthy(Get(t.cells, t.value, "on"))
         THEN Delete(Set(ArrayifyAll(t.cells, Get(t.cells, t.value, "on").ref, 1),
                         t.value.ref, "eventListeners", Get(t.cells, t.value, "on")),
                     t.value.ref, "on")
         ELSE t.cells, LAMBDA o :
        [cells |-> IF ~ Truthy(Get(o, t.value, "text"))
                   THEN AddChildren(
                            \* normalizeAttributes( def.attributes )
                            IF Truthy(Get(o, t.value, "attributes"))
                            THEN ArrayifyAll(o, Get(o, t.value, "attributes").ref, 1)
                            ELSE o,
                            t.value,
                            IF Truthy(Get(o, t.value, "children"))
                            THEN o[Get(o, t.value, "children").ref].values ELSE <<>>,
                            1, <<>>)
                   ELSE o,
         value |-> t.value]))

\* new Template( def ): Object.assign( this, normalize( clone( def ) ) )
TemplateRef(cells, def) ==
    Then(clone(cells, def), LAMBDA c :
    Then(normalizeRef(c.cells, c.value), LAMBDA n :
        Allocated(n.cells, [n.cells[n.value.ref] EXCEPT !.class = "Template"])))

\* extendObjectValueArray( obj, ext ) from the i-th key of ext on.
RECURSIVE extendObjectValueArrayRef(_, _, _, _)
extendObjectValueArrayRef(cells, obj, ext, i) ==
    IF i > Len(cells[ext].names) THEN cells
    ELSE extendObjectValueArrayRef(
            IF Truthy(Get(cells, Ref(obj), cells[ext].names[i]))
            THEN [cells EXCEPT ![Get(cells, Ref(obj), cells[ext].names[i]).ref].values =
                                   @ \o cells[cells[ext].values[i].ref].values]
            ELSE Set(cells, obj, cells[ext].names[i], cells[ext].values[i]),
            obj, ext, i + 1)

\* The attributes and eventListeners part of extendTemplate, for one of them.
ExtendedSection(cells, template_, def, name) ==
    IF ~ Truthy(Get(cells, def, name)) THEN cells
    ELSE IF Truthy(Get(cells, template_, name))
    THEN extendObjectValueArrayRef(cells, Get(cells, template_, name).ref,
                                   Get(cells, def, name).ref, 1)
    ELSE Then(Allocated(cells, Cell("object", "Object", <<>>, <<>>)), LAMBDA o :
            extendObjectValueArrayRef(Set(o.cells, template_.ref, name, o.value),
                                      o.value.ref, Get(cells, def, name).ref, 1))

RECURSIVE extendTemplateRef(_, _, _)
RECURSIVE extendChildrenRef(_, _, _, _)

\* The for loop of extendTemplate over def.children: r = [cells, err].
extendChildrenRef(r, children, defChildren, i) ==
    IF i > Len(defChildren) \/ r.err # "none" THEN r
    ELSE IF children[i].ref # 0
    THEN extendChildrenRef(extendTemplateRef(r.cells, children[i], defChildren[i]),
                           children, defChildren, i + 1)
    \* a View has no text Array and no children Collection of its own
    ELSE IF Truthy(Get(r.cells, defChildren[i], "text"))
            \/ r.cells[Get(r.cells, defChildren[i], "children").ref].values # <<>>
    THEN [r EXCEPT !.err = "TypeError"]
    ELSE extendChildrenRef(r, children, defChildren, i + 1)

\* extendTemplate( template, def ) on the objects: the cells after the call
\* and the error thrown, if any.
extendTemplateRef(cells0, template_, def) ==
    Then(ExtendedSection(ExtendedSection(cells0, template_, def, "attributes"),
                         template_, def, "eventListeners"), LAMBDA cells :
        IF Truthy(Get(cells, def, "text")) /\ ~ IsArray(cells, Get(cells, template_, "text"))
        THEN [cells |-> cells, err |-> "TypeError"]
        ELSE Then(IF Truthy(Get(cells, def, "text"))
                  THEN [cells EXCEPT ![Get(cells, template_, "text").ref].values =
                                         @ \o cells[Get(cells, def, "text").ref].values]
                  ELSE cells, LAMBDA c2 :
            IF ~ Truthy(Get(c2, def, "children"))
            THEN [cells |-> c2, err |-> "none"]
            ELSE IF c2[Get(c2, def, "children").ref].values = <<>>
            THEN [cells |-> c2, err |-> "none"]
            ELSE IF ~ Truthy(Get(c2, template_, "children"))
            THEN [cells |-> c2, err |-> "TypeError"]
            ELSE IF Len(c2[Get(c2, template_, "children").ref].values)
                    # Len(c2[Get(c2, def, "children").ref].values)
            THEN [cells |-> c2, err |-> "ChildCountMismatch"]
            ELSE extendChildrenRef([cells |-> c2, err |-> "none"],
                                   c2[Get(c2, template_, "children").ref].values,
                                   c2[Get(c2, def, "children").ref].values, 1)))

\* The heap of the specifications that have no use for it.
NoHeap == [cells |-> <<>>, def |-> JsUndefined, fragments |-> <<>>,
           templates |-> <<JsUndefined, JsUndefined>>]

-----------------------------------------------------------------------------
(* Notifications and DOM events.                                           *)

\* The delivery with callbacks registered by emitter.once: a callback that
\* ran is no longer registered.
RECURSIVE DeliverChange_Once(_, _, _, _)
DeliverChange_Once(w, attribute, i, obs) ==
    IF i > Len(w.listeners) \/ w.err # "none" THEN w
    ELSE IF w.listeners[i].kind = "change" /\ w.listeners[i].attribute = attribute
    THEN Then(syncValueSchemaValue(w, w.listeners[i].valueSchema, w.listeners[i].node,
                                   w.listeners[i].updater, obs),
              LAMBDA w1 : DeliverChange_Once(
                  [w1 EXCEPT !.calls = @ + 1,
                             !.listeners = SubSeq(@, 1, i - 1) \o SubSeq(@, i + 1, Len(@))],
                  attribute, i, obs))
    ELSE DeliverChange_Once(w, attribute, i + 1, obs)

\* emitter callbacks of 'change:' + attribute, in registration order; an
\* exception ends the delivery.
RECURSIVE DeliverChange(_, _, _, _)
DeliverChange(w, attribute, i, obs) ==
    IF i > Len(w.listeners) \/ w.err # "none" THEN w
    ELSE IF w.listeners[i].kind = "change" /\ w.listeners[i].attribute = attribute
    THEN Then(syncValueSchemaValue(w, w.listeners[i].valueSchema, w.listeners[i].node,
                                   w.listeners[i].updater, obs),
              LAMBDA w1 : DeliverChange([w1 EXCEPT !.calls = @ + 1], attribute, i + 1, obs))
    ELSE DeliverChange(w, attribute, i + 1, obs)

\* target.matches( selector ) for a type selector: tags are one character.
Matches(ns_, target, domSelector) ==
    Len(domSelector) = 1 /\ ns_[target].tag = domSelector[1]

\* The callback of activateDomEventListener without the test of the
\* selector.
DomCallback_IgnoreSelector(ns_, l, target) ==
    IF l.binding.fn
    THEN <<[kind |-> "call", name |-> l.binding.attribute, domEvt |-> target]>>
    ELSE <<[kind |-> "fire", name |-> l.binding.attribute, domEvt |-> target]>>

\* The callback of activateDomEventListener for one registration: the
\* entries it appends to the log of calls.
DomCallback(ns_, l, target) ==
    IF (~ l.hasSelector) \/ l.domSelector = <<>> \/ Matches(ns_, target, l.domSelector)
    THEN IF l.binding.fn
         THEN <<[kind |-> "call", name |-> l.binding.attribute, domEvt |-> target]>>
         ELSE <<[kind |-> "fire", name |-> l.binding.attribute, domEvt |-> target]>>
    ELSE <<>>

\* The callbacks registered on one node for the event, in registration order.
RECURSIVE CallbacksOn(_, _, _, _, _, _)
CallbacksOn(ns_, ls, i, node, domEvtName, target) ==
    IF i > Len(ls) THEN <<>>
    ELSE (IF ls[i].kind = "dom" /\ ls[i].node = node /\ ls[i].domEvtName = domEvtName
          THEN DomCallback(ns_, ls[i], target) ELSE <<>>)
         \o CallbacksOn(ns_, ls, i + 1, node, domEvtName, target)

\* A bubbling native event: the target first, then each ancestor.
RECURSIVE Bubble(_, _, _, _, _)
Bubble(ns_, ls, node, domEvtName, target) ==
    IF node = 0 THEN <<>>
    ELSE CallbacksOn(ns_, ls, 1, node, domEvtName, target)
         \o Bubble(ns_, ls, ns_[node].parent, domEvtName, target)

-----------------------------------------------------------------------------
(* The state machine.                                                      *)

World == [nodes |-> nodes, listeners |-> listeners, parents |-> parents,
          err |-> "none", this |-> <<>>, calls |-> 0]

Result(op, status, node, arg, name, data) ==
    [op |-> op, status |-> status, node |-> node, arg |-> arg, name |-> name,
     data |-> data]

\* The existing DOM: the elements of two Views (nodes 1 and 2, the members of
\* the ViewCollection 1) and a tree <p><a></a>text</p> (nodes 3, 4, 5).
InitialNodes ==
    << Node("element", xhtmlNs, "a"),
       Node("element", xhtmlNs, "b"),
       [Node("element", xhtmlNs, "p") EXCEPT !.childNodes = <<4, 5>>],
       [Node("element", xhtmlNs, "a") EXCEPT !.parent = 3],
       [Node("text", "", "") EXCEPT !.parent = 3, !.text = "old"] >>

InitWith(t, obs) ==
    /\ template = t
    /\ observable = obs
    /\ nodes = InitialNodes
    /\ listeners = <<>>
    /\ parents = <<0>>
    /\ fired = <<>>
    /\ result = Result("new", "none", 0, 0, "", <<>>)
    /\ steps = 0
    /\ changes = 0
    /\ heap = NoHeap

Commit(w) ==
    /\ nodes' = w.nodes
    /\ listeners' = w.listeners
    /\ parents' = w.parents

\* Template.render()
Render ==
    /\ steps < MaxSteps
    /\ \E r \in {renderNode(World, template, 0, TRUE, observable)} :
           /\ Commit(r.w)
           /\ result' = Result("render", r.w.err,
                               IF r.w.err = "none" THEN r.node ELSE 0, 0, "", <<>>)
    /\ steps' = steps + 1
    /\ UNCHANGED <<template, observable, fired, changes, heap>>

\* The nodes a caller hands to apply(): a Text node for a template with text,
\* an element otherwise; 0 is no node.
Applicable(t, node) ==
    IF node = 0 THEN TRUE
    ELSE IF RawTruthy(t.text) /\ ~ ToBoolean(t.tag)
    THEN nodes[node].type = "text"
    ELSE nodes[node].type = "element"

\* Template.apply( node )
Apply(node) ==
    /\ steps < MaxSteps
    /\ Applicable(template, node)
    /\ IF node = 0
       THEN /\ result' = Result("apply", "MissingTarget", 0, node, "", <<>>)
            /\ UNCHANGED <<nodes, listeners, parents>>
       ELSE \E r \in {renderNode(World, template, node, FALSE, observable)} :
                /\ Commit(r.w)
                /\ result' = Result("apply", r.w.err,
                                    IF r.w.err = "none" THEN r.node ELSE 0,
                                    node, "", <<>>)
    /\ steps' = steps + 1
    /\ UNCHANGED <<template, observable, fired, changes, heap>>

\* The observable's attribute is set to value and 'change:' + attribute is
\* delivered to the callbacks registered by activateAttributeListener; with
\* the current value the notification is delivered again (result.arg = 1).
\* result.data holds the number of callbacks that ran.
Change(attribute, value) ==
    /\ changes < MaxChanges
    /\ observable' = [observable EXCEPT ![attribute] = value]
    /\ \E w \in {DeliverChange(World, attribute, 1,
                               [observable EXCEPT ![attribute] = value])} :
           /\ Commit(w)
           /\ result' = Result("change", w.err, 0,
                               IF observable[attribute] = value THEN 1 ELSE 0,
                               attribute, [calls |-> w.calls])
    /\ changes' = changes + 1
    /\ UNCHANGED <<template, fired, steps, heap>>

\* Template.extend( template, def ); clone( def ) copies the definition, so
\* the fragment itself is left as it is. The callbacks registered by earlier
\* render() and apply() calls hold the Arrays that are extended.
Extend(def) ==
    /\ steps < MaxSteps
    /\ \E r \in {extendTemplate(template, normalize(def))} :
           /\ template' = r.tpl
           /\ listeners' = Realias(listeners, r.tpl)
           /\ result' = Result("extend", r.err, 0, 0, "", def)
    /\ steps' = steps + 1
    /\ UNCHANGED <<observable, nodes, parents, fired, changes, heap>>

\* new Template( def ): the template of the model is the new one; the
\* registrations made for the former one stay with the emitter.
New(def) ==
    /\ steps < MaxSteps
    /\ template' = normalize(def)
    /\ listeners' = Detached(listeners)
    /\ result' = Result("new", "none", 0, 0, "", def)
    /\ steps' = steps + 1
    /\ UNCHANGED <<observable, nodes, parents, fired, changes, heap>>

\* A native event named domEvtName dispatched on the element target: the
\* callbacks of emitter.listenTo run on the target and on its ancestors.
DomEvent(domEvtName, target) ==
    /\ changes < MaxChanges
    /\ nodes[target].type = "element"
    /\ \E calls \in {Bubble(nodes, listeners, target, domEvtName, target)} :
           /\ fired' = fired \o calls
           /\ result' = Result("event", "none", target, 0, "",
                               [domEvtName |-> domEvtName, calls |-> calls])
    /\ changes' = changes + 1
    /\ UNCHANGED <<template, observable, nodes, listeners, parents, steps, heap>>

-----------------------------------------------------------------------------
(* Specification Spec: render() and apply() of definitions without         *)
(* bindings.                                                               *)

KV(name, value) == [name |-> name, value |-> value]
El(tag, attributes, children) == Def(Str(tag), Undefined, attributes, children, <<>>)
C(def) == ChildDef(def)

\* The definitions of Spec.
RenderDefs ==
    << StrDef("hello"),
       El("p", <<KV("class", Arr(<<S("foo")>>))>>, <<C(StrDef("hello"))>>),
       Def(Str("p"), One(S("x")), <<>>, <<>>, <<>>),
       Def(JUndef, Undefined, <<>>, <<>>, <<>>),
       El("p", <<>>, << C(El("a", <<>>, <<C(StrDef("t"))>>)),
                        C(El("b", <<KV("id", One(Lit(Num0)))>>, <<>>)) >>),
       El("p", <<>>, <<C(El("a", <<>>, <<>>)), C(Def(JUndef, Undefined, <<>>, <<>>, <<>>))>>),
       El("p", <<>>, <<C(Def(Str("a"), Arr(<<S("x")>>), <<>>, <<>>, <<>>))>>),
       El("p", <<KV("class", Arr(<<S(""), S("a"), Lit(JNull), S("b")>>))>>,
          <<ChildView(1), C(El("a", <<KV("id", One(S("i")))>>, <<>>)), C(StrDef("t"))>>),
       El("p", <<>>, <<ChildCollection(1, <<1, 2>>)>>),
       Def(JUndef, Undefined, <<KV("class", One(S("c")))>>,
           <<C(El("a", <<KV("id", One(S("i")))>>, <<>>))>>, <<>>),
       El("p", << KV("class", Arr(<<S(""), S("a"), Lit(JNull), S("b")>>)),
                  KV("id", One(S(""))),
                  KV("title", Arr(<<Lit(JFalse), Lit(JUndef)>>)),
                  KV("lang", Arr(<<Lit(Num0), S("a")>>)) >>, <<>>),
       Def(JUndef, Arr(<<S("a"), S("b")>>), <<>>, <<>>, <<>>),
       Def(Str("p"), One(S("")), <<>>, <<C(StrDef("t"))>>, <<>>),
       El("p", << KV("class", One(NsItem("abc", <<S("foo")>>, FALSE))),
                  KV("style", One(StyleItem(<<KV("color", S("red")), KV("width", S("1px"))>>))) >>,
          <<>>) >>

Init == \E i \in 1..Len(RenderDefs) :
            InitWith(normalize(RenderDefs[i]), [a |-> Str("x"), b |-> JUndef])

Next ==
    \/ Render
    \/ \E node \in 0..Len(nodes) : Apply(node)

Spec == Init /\ [][Next]_vars

-----------------------------------------------------------------------------
(* Specification SpecBinding: templates bound to the observable.           *)

Text(text) == Def(JUndef, text, <<>>, <<>>, <<>>)

\* The definitions of SpecBinding.
BindDefs ==
    << El("p", <<KV("class", One(BindTo("a", "none")))>>, <<>>),
       El("p", <<KV("class", Arr(<<S("foo"), BindTo("a", "none"), S("bar"),
                                   BindTo("b", "none")>>))>>, <<>>),
       El("i", <<KV("checked", One(BindIf("a", JUndef, "none")))>>, <<>>),
       El("p", <<KV("class", One(BindIf("a", Str("on"), "none")))>>,
          <<C(Text(One(BindTo("b", "none"))))>>),
       Text(Arr(<<S("x"), BindIf("a", Str("y"), "none")>>)),
       El("p", <<KV("style", One(StyleItem(<< KV("color", S("red")),
                                              KV("width", BindTo("b", "none")),
                                              KV("height", BindIf("a", Str("1px"), "none")) >>)))>>,
          <<>>),
       El("p", <<KV("class", One(NsItem("abc", <<BindTo("a", "none")>>, FALSE)))>>, <<>>),
       El("p", <<KV("class", Arr(<<S("z"), BindIf("a", JUndef, "none")>>))>>, <<>>),
       El("p", <<KV("class", One(BindTo("a", "not")))>>,
          <<C(Text(One(BindIf("a", JUndef, "none"))))>>),
       Text(One(BindIf("b", JUndef, "not"))) >>

\* The values given to the attributes of the observable.
ObservableValues(attribute) ==
    IF attribute = "a" THEN {Str("x"), Str(""), Num0, JFalse, JNull, JUndef}
    ELSE {Str("y"), Num0}

InitBinding == \E i \in 1..Len(BindDefs) :
                  InitWith(normalize(BindDefs[i]), [a |-> Str("x"), b |-> JUndef])

NextBinding ==
    \/ Render
    \/ \E node \in 0..Len(nodes) : Apply(node)
    \/ \E attribute \in {"a", "b"} :
          \E value \in ObservableValues(attribute) : Change(attribute, value)

SpecBinding == InitBinding /\ [][NextBinding]_vars

-----------------------------------------------------------------------------
(* Specification SpecExtend: Template.extend() and render() of the         *)
(* extended template.                                                      *)

\* A fragment of an element: no tag.
Frag(attributes, children, on) == Def(JUndef, Undefined, attributes, children, on)
Empty == Frag(<<>>, <<>>, <<>>)

\* The templates that are extended.
ExtendTargets ==
    << El("p", <<KV("class", One(S("a"))), KV("x", One(BindTo("a", "none")))>>,
          <<C(El("b", <<KV("class", One(S("b")))>>, <<C(StrDef("Span"))>>))>>),
       El("p", <<>>, <<C(El("a", <<>>, <<>>)), C(El("b", <<>>, <<>>))>>),
       El("p", <<>>, <<C(El("a", <<>>, <<C(El("i", <<>>, <<>>)), C(StrDef("t"))>>)),
                       C(StrDef("x"))>>),
       Text(Arr(<<S("a")>>)),
       Def(Str("p"), Undefined, <<KV("class", Arr(<<S("a"), S("b")>>))>>, <<>>,
           <<KV(<<"k">>, One(BindTo("clicked", "none")))>>),
       El("p", <<>>, <<>>),
       El("p", << KV("href", One(NsItem("abc", <<BindTo("a", "none")>>, FALSE))),
                  KV("title", One(NsItem("abc", <<S("foo")>>, FALSE))),
                  KV("style", One(StyleItem(<<KV("color", S("red"))>>))) >>, <<>>) >>

\* The fragments they are extended with.
Fragments ==
    << Frag(<<KV("class", One(S("b"))), KV("x", One(BindTo("b", "none")))>>,
            <<C(Frag(<<KV("class", One(S("c")))>>, <<>>, <<>>))>>, <<>>),
       Frag(<<KV("class", One(S("d"))), KV("id", Arr(<<S("i"), S("j")>>))>>, <<>>, <<>>),
       Frag(<<>>, <<C(Empty), C(Empty), C(Empty)>>, <<>>),
       Frag(<<>>, <<C(Empty), C(Frag(<<KV("id", One(S("i")))>>, <<>>, <<>>))>>, <<>>),
       Frag(<<>>, <<C(Frag(<<>>, <<C(Empty)>>, <<>>)), C(Empty)>>, <<>>),
       Frag(<<>>, <<C(Frag(<<>>, <<C(Frag(<<KV("id", One(S("i")))>>, <<>>, <<>>)),
                                   C(StrDef("u"))>>, <<>>)),
                    C(StrDef("y"))>>, <<>>),
       StrDef("b"),
       Frag(<<>>, <<>>, <<KV(<<"k">>, One(BindToFn("f"))),
                          KV(<<"m">>, Arr(<<BindTo("moved", "none")>>))>>),
       Frag(<<>>, <<C(Empty)>>, <<>>),
       Frag(<< KV("href", One(NsItem("abc", <<BindTo("b", "none")>>, FALSE))),
               KV("title", One(NsItem("abc", <<S("bar")>>, FALSE))),
               KV("style", One(StyleItem(<<KV("width", S("1px"))>>))) >>, <<>>, <<>>) >>

InitExtend == \E i \in 1..Len(ExtendTargets) :
                 InitWith(normalize(ExtendTargets[i]), [a |-> Str("x"), b |-> Str("y")])

NextExtend ==
    \/ \E i \in 1..Len(Fragments) : Extend(Fragments[i])
    \/ Render

SpecExtend == InitExtend /\ [][NextExtend]_vars

-----------------------------------------------------------------------------
(* Specification SpecEvents: listeners of native events.                   *)

On(tag, children, on) == Def(tag, Undefined, <<>>, children, on)

\* The definitions of SpecEvents; a key is a sequence of characters.
EventDefs ==
    << On(Str("p"), <<C(On(Str("a"), <<C(StrDef("t"))>>, <<>>)), C(On(Str("b"), <<>>, <<>>))>>,
          <<KV(<<"k", "@", "a">>, One(BindTo("clicked", "none"))),
            KV(<<"k">>, One(BindToFn("f")))>>),
       On(Str("p"), <<C(On(Str("a"), <<>>, <<>>)), C(On(Str("b"), <<>>, <<>>))>>,
          <<KV(<<"k", "@", "b">>, Arr(<<BindTo("clicked", "none"), BindToFn("f")>>)),
            KV(<<"m", "@", "a">>, One(BindTo("moved", "none")))>>),
       On(Str("p"), <<C(On(Str("a"), <<>>,
                           <<KV(<<"k", "@", "a">>, One(BindTo("y", "none"))),
                             KV(<<"k", "@", "b">>, One(BindToFn("g")))>>))>>,
          <<KV(<<"k">>, One(BindTo("x", "none")))>>),
       On(JUndef, <<C(On(JUndef, <<>>, <<KV(<<"k">>, One(BindToFn("g")))>>))>>,
          <<KV(<<"k", "@", "a">>, One(BindTo("clicked", "none"))),
            KV(<<"m">>, One(BindTo("moved", "none")))>>),
       On(Str("p"), <<>>, <<KV(<<"k">>, Arr(<<BindTo("x", "none"),
                                              BindIf("a", JUndef, "none")>>))>>) >>

\* The names of the native events dispatched.
EventNames == { <<"k">>, <<"m">> }

InitEvents == \E i \in 1..Len(EventDefs) :
                 InitWith(normalize(EventDefs[i]), [a |-> Str("x"), b |-> JUndef])

NextEvents ==
    \/ Render
    \/ \E node \in 1..Len(nodes) : Apply(node)
    \/ \E domEvtName \in EventNames : \E target \in 1..Len(nodes) :
          DomEvent(domEvtName, target)

SpecEvents == InitEvents /\ [][NextEvents]_vars

-----------------------------------------------------------------------------
(* Specification SpecReducer: values.reduce( arrayValueReducer, '' ), one   *)
(* call of the reducer per step. result.data holds the array and the       *)
(* accumulator, result.arg the number of entries folded so far.            *)

\* The entries of the arrays that are folded.
ReducerValues == {Str("a"), Str("b"), Str(""), Num0, JTrue, JFalse, JNull, JUndef}

ArraysUpTo(n) == UNION {[1..k -> ReducerValues] : k \in 0..n}

InitReducer ==
    \E values \in ArraysUpTo(MaxLen) :
        /\ template = normalize(StrDef(""))
        /\ observable = [a |-> JUndef, b |-> JUndef]
        /\ nodes = <<>>
        /\ listeners = <<>>
        /\ parents = <<0>>
        /\ fired = <<>>
        /\ result = Result("values", "none", 0, 0, "",
                           [values |-> values, value |-> Str("")])
        /\ steps = 0
        /\ changes = 0
        /\ heap = NoHeap

\* One call of the callback of reduce: the next entry is folded.
Reduce ==
    /\ result.op \in {"values", "reduce"}
    /\ result.arg < Len(result.data.values)
    /\ result' = Result("reduce", "none", 0, result.arg + 1, "",
                        [values |-> result.data.values,
                         value |-> arrayValueReducer(result.data.value,
                                       result.data.values[result.arg + 1])])
    /\ UNCHANGED <<template, observable, nodes, listeners, parents, fired, steps,
                   changes, heap>>

NextReducer == Reduce

SpecReducer == InitReducer /\ [][NextReducer]_vars

-----------------------------------------------------------------------------
(* Specification SpecLife: every operation in any order: new Template(),   *)
(* extend(), render(), apply(), change notifications and native events.    *)

\* The definitions of SpecLife.
LifeDefs ==
    << Def(Str("p"), Undefined,
           <<KV("class", Arr(<<S("foo"), BindTo("a", "none"), BindTo("a", "not")>>))>>,
           <<C(Text(One(BindIf("b", JUndef, "none"))))>>,
           <<KV(<<"k">>, One(BindTo("clicked", "none")))>>),
       Text(Arr(<<BindTo("a", "none")>>)) >>

\* The fragments of SpecLife.
LifeFragments ==
    << Frag(<<KV("class", One(BindTo("b", "none")))>>, <<>>,
            <<KV(<<"k">>, One(BindToFn("f")))>>),
       Text(One(BindTo("b", "none"))) >>

\* The values given to the attributes of the observable in SpecLife.
LifeValues(attribute) ==
    IF attribute = "a" THEN {Str("x"), Str("")} ELSE {Str("y")}

InitLife == \E i \in 1..Len(LifeDefs) :
               InitWith(normalize(LifeDefs[i]), [a |-> Str("x"), b |-> JUndef])

NextLife ==
    \/ \E i \in 1..Len(LifeDefs) : New(LifeDefs[i])
    \/ \E i \in 1..Len(LifeFragments) : Extend(LifeFragments[i])
    \/ Render
    \/ \E node \in 0..Len(nodes) : Apply(node)
    \/ \E attribute \in {"a", "b"} :
          \E value \in LifeValues(attribute) : Change(attribute, value)
    \/ \E target \in 1..Len(nodes) : DomEvent(<<"k">>, target)

SpecLife == InitLife /\ [][NextLife]_vars

-----------------------------------------------------------------------------
(* Specification SpecGetValue: TemplateIfBinding.getValue() of a binding   *)
(* made by bind.if( 'a', valueIfTrue, callback ), the text of the template. *)

\* The values of valueIfTrue: undefined when if() is called without it.
ValuesIfTrue == {JUndef, Str("on"), Str("y"), Str(""), Num0}

InitGetValue ==
    \E valueIfTrue \in ValuesIfTrue : \E callback \in {"none", "not"} :
        \E value \in ReducerValues :
            InitWith(normalize(Text(One(BindIf("a", valueIfTrue, callback)))),
                     [a |-> value, b |-> JUndef])

\* binding.getValue( node )
GetValue ==
    /\ result.op = "new"
    /\ result' = Result("getValue", "none", 0, 0, "",
                        [value |-> TemplateIfBinding_getValue(template.text.items[1],
                                                              observable)])
    /\ UNCHANGED <<template, observable, nodes, listeners, parents, fired, steps,
                   changes, heap>>

NextGetValue == GetValue

SpecGetValue == InitGetValue /\ [][NextGetValue]_vars

-----------------------------------------------------------------------------
(* Specification SpecClone: a caller keeps a definition and fragments,     *)
(* makes two Templates of the definition and extends them; the objects and *)
(* Arrays are kept by reference.                                           *)

\* The definitions of SpecClone.
CloneDefs ==
    << Def(Str("p"), Undefined,
           <<KV("class", One(S("a"))), KV("title", Arr(<<BindTo("a", "none")>>))>>,
           <<C(Text(One(BindTo("b", "none")))), ChildView(1)>>,
           <<KV(<<"k">>, One(BindTo("clicked", "none")))>>),
       Text(Arr(<<S("a"), BindTo("a", "none")>>)),
       StrDef("t") >>

\* The fragments of SpecClone.
CloneFragments ==
    << Frag(<<KV("class", One(S("b"))), KV("id", Arr(<<S("i")>>))>>,
            <<C(Text(One(S("u")))), C(Empty)>>,
            <<KV(<<"k">>, One(BindToFn("f")))>>),
       Text(One(BindTo("b", "none"))),
       Frag(<<KV("class", Arr(<<S("c")>>))>>, <<C(Empty)>>, <<>>),
       StrDef("b") >>

\* The caller holds the definition and the fragments; no Template yet.
InitClone ==
    \E i \in 1..Len(CloneDefs) :
        /\ template = normalize(CloneDefs[i])
        /\ observable = [a |-> Str("x"), b |-> Str("y")]
        /\ nodes = InitialNodes
        /\ listeners = <<>>
        /\ parents = <<0>>
        /\ fired = <<>>
        /\ result = Result("none", "none", 0, 0, "", <<>>)
        /\ steps = 0
        /\ changes = 0
        /\ heap = Then(StoreAll(<<>>, "child",
                                <<C(CloneDefs[i])>>
                                    \o [j \in 1..Len(CloneFragments) |-> C(CloneFragments[j])],
                                1, <<>>), LAMBDA r :
                      [NoHeap EXCEPT !.cells = r.cells, !.def = Head(r.value),
                                     !.fragments = Tail(r.value)])

\* templates[ k ] = new Template( def ), once for each k.
Construct(k) ==
    /\ heap.templates[k] = JsUndefined
    /\ \E r \in {TemplateRef(heap.cells, heap.def)} :
           heap' = [heap EXCEPT !.cells = r.cells, !.templates[k] = r.value]
    /\ result' = Result("new", "none", 0, k, "", <<>>)
    /\ UNCHANGED <<template, observable, nodes, listeners, parents, fired, steps,
                   changes>>

\* Template.extend( templates[ k ], fragments[ f ] ):
\* extendTemplate( template, normalize( clone( def ) ) )
ExtendTemplate(k, f) ==
    /\ steps < MaxSteps
    /\ heap.templates[k] # JsUndefined
    /\ \E r \in {Then(clone(heap.cells, heap.fragments[f]), LAMBDA c :
                  Then(normalizeRef(c.cells, c.value), LAMBDA n :
                      extendTemplateRef(n.cells, heap.templates[k], n.value)))} :
           /\ heap' = [heap EXCEPT !.cells = r.cells]
           /\ result' = Result("extend", r.err, 0, k, "", <<>>)
    /\ steps' = steps + 1
    /\ UNCHANGED <<template, observable, nodes, listeners, parents, fired, changes>>

NextClone ==
    \/ \E k \in 1..2 : Construct(k)
    \/ \E k \in 1..2, f \in 1..Len(CloneFragments) : ExtendTemplate(k, f)

SpecClone == InitClone /\ [][NextClone]_vars

-----------------------------------------------------------------------------
(* Properties of render() and apply() (specification Spec).                *)

HasTag(t)     == ToBoolean(t.tag)
HasText(t)    == RawTruthy(t.text)
HasBoth(t)    == HasTag(t) /\ HasText(t)
HasNeither(t) == (~ HasTag(t)) /\ ~ HasText(t)
ExactlyOne(t) == ~ HasBoth(t) /\ ~ HasNeither(t)

PlainChildren(t) ==
    {i \in 1..Len(t.children) : t.children[i].kind = "template"}

\* Some template met by the walk of render() has both tag and text, or neither.
RECURSIVE RenderWalkInvalid(_)
RenderWalkInvalid(t) ==
    \/ ~ ExactlyOne(t)
    \/ \E i \in PlainChildren(t) : RenderWalkInvalid(t.children[i].tpl)

\* C1: render() fails with InvalidDefinition exactly when the template, or a
\* plain child template met during the walk, has both tag and text or has
\* neither; otherwise it succeeds.
C1_RenderValidity ==
    result.op = "render" =>
        /\ (result.status = "InvalidDefinition") <=> RenderWalkInvalid(template)
        /\ (~ RenderWalkInvalid(template)) => result.status = "none"

\* A render() that failed because of a plain child: the root is valid.
C1_Witness ==
    /\ result.op = "render"
    /\ result.status = "InvalidDefinition"
    /\ ExactlyOne(template)

FalsyValues == {JFalse, JNull, JUndef, Str("")}

RECURSIVE JoinWithSpaces(_)
JoinWithSpaces(strs) ==
    IF strs = <<>> THEN ""
    ELSE IF Len(strs) = 1 THEN strs[1]
    ELSE strs[1] \o " " \o JoinWithSpaces(Tail(strs))

\* The strings of the values that are not falsy, in order.
RECURSIVE NonFalsyStrings(_)
NonFalsyStrings(vals) ==
    IF vals = <<>> THEN <<>>
    ELSE (IF Head(vals) \in FalsyValues THEN <<>> ELSE <<Head(vals).s>>)
         \o NonFalsyStrings(Tail(vals))

\* The values of a static attribute: those of a { ns, value } entry are its
\* inner values.
RECURSIVE AttributeValues(_)
AttributeValues(items) ==
    IF items = <<>> THEN <<>>
    ELSE (IF Head(items).k = "ns"
          THEN [j \in 1..Len(Head(items).value) |-> Head(items).value[j].v]
          ELSE <<Head(items).v>>) \o AttributeValues(Tail(items))

IsStaticAttribute(a) ==
    /\ ~ hasTemplateBinding(a.value)
    /\ \A j \in 1..Len(a.value) : a.value[j].k \in {"lit", "ns"}

\* The namespace of the attribute written for an entry ("" is null).
NamespaceOf(a) ==
    IF a.value # <<>> /\ a.value[1].k = "ns" THEN a.value[1].ns ELSE ""

AttrsNamed(n, a) ==
    {j \in 1..Len(n.attrs) : n.attrs[j].name = a.name /\ n.attrs[j].ns = NamespaceOf(a)}

\* The static attribute a of the template is on element n as required.
StaticAttributeOk(n, a) ==
    LET strs == NonFalsyStrings(AttributeValues(a.value))
    IN  IF strs = <<>> THEN AttrsNamed(n, a) = {}
        ELSE \E j \in AttrsNamed(n, a) : n.attrs[j].value = JoinWithSpaces(strs)

\* What the children of a template contribute, in order: a template to
\* render, or the node of a View.
RECURSIVE ExpectedChildren(_)
ExpectedChildren(children) ==
    IF children = <<>> THEN <<>>
    ELSE (CASE Head(children).kind = "template" ->
                  <<[isNode |-> FALSE, node |-> 0, tpl |-> Head(children).tpl]>>
            [] Head(children).kind = "view" ->
                  <<[isNode |-> TRUE, node |-> Head(children).element, tpl |-> <<>>]>>
            [] OTHER ->
                  [j \in 1..Len(Head(children).views) |->
                      [isNode |-> TRUE, node |-> Head(children).views[j], tpl |-> <<>>]])
         \o ExpectedChildren(Tail(children))

RECURSIVE ConcatStrings(_)
ConcatStrings(items) ==
    IF items = <<>> THEN "" ELSE Head(items).v.s \o ConcatStrings(Tail(items))

\* Node id of the heap has the shape of template t.
RECURSIVE HasShape(_, _)
HasShape(id, t) ==
    IF HasText(t)
    THEN /\ nodes[id].type = "text"
         /\ (~ hasTemplateBinding(t.text.items))
               => nodes[id].text = ConcatStrings(t.text.items)
    ELSE LET n == nodes[id]
             e == ExpectedChildren(t.children)
         IN  /\ n.type = "element"
             /\ n.tag = t.tag.s
             /\ \A i \in 1..Len(t.attributes) :
                    IsStaticAttribute(t.attributes[i]) => StaticAttributeOk(n, t.attributes[i])
             /\ Len(n.childNodes) = Len(e)
             /\ \A j \in 1..Len(e) :
                    /\ nodes[n.childNodes[j]].parent = id
                    /\ IF e[j].isNode THEN n.childNodes[j] = e[j].node
                       ELSE HasShape(n.childNodes[j], e[j].tpl)

\* C3: when every template of the tree has exactly one of tag and text,
\* render() succeeds and returns a node with the template's tag, the
\* renderings of its children in order (the node of a View, the nodes of the
\* views of a ViewCollection), the text of a text template, and every static
\* attribute set to the space-joined values that are not falsy, or absent
\* when there is none.
C3_RenderShape ==
    (result.op = "render" /\ ~ RenderWalkInvalid(template)) =>
        /\ result.status = "none"
        /\ HasShape(result.node, template)

\* A rendered element with a View among its children and a static attribute
\* of which some values are falsy.
C3_Witness ==
    /\ result.op = "render"
    /\ result.status = "none"
    /\ ~ HasText(template)
    /\ \E i \in 1..Len(template.children) : template.children[i].kind = "view"
    /\ \E i \in 1..Len(template.children) : template.children[i].kind = "template"
    /\ \E i \in 1..Len(template.attributes) :
          \E j \in 1..Len(template.attributes[i].value) :
             template.attributes[i].value[j].v = JNull

\* C8: apply( node ) creates no node and leaves the parent/child structure of
\* the existing nodes as it was.
C8_ApplyCreatesNoNode ==
    [][(result'.op = "apply" /\ steps' = steps + 1) =>
          /\ Len(nodes') = Len(nodes)
          /\ \A i \in 1..Len(nodes) :
                /\ nodes'[i].childNodes = nodes[i].childNodes
                /\ nodes'[i].parent = nodes[i].parent]_vars

-----------------------------------------------------------------------------
(* Properties of the bindings (specification SpecBinding).                 *)

\* node.textContent
RECURSIVE TextContent(_, _)
RECURSIVE TextContentOf(_, _)
TextContentOf(ns_, ids) ==
    IF ids = <<>> THEN ""
    ELSE TextContent(ns_, Head(ids)) \o TextContentOf(ns_, Tail(ids))
TextContent(ns_, id) ==
    IF ns_[id].type = "text" THEN ns_[id].text
    ELSE TextContentOf(ns_, ns_[id].childNodes)

Absent == [present |-> FALSE, value |-> ""]
Present(str) == [present |-> TRUE, value |-> str]

\* What the write target of an updater holds on a node of the heap ns_: an
\* attribute, a style property or the text content.
TargetOf(ns_, node, u) ==
    CASE u.kind = "attr" ->
            LET at == {j \in 1..Len(ns_[node].attrs) :
                          ns_[node].attrs[j].name = u.name /\ ns_[node].attrs[j].ns = u.ns}
            IN  IF at = {} THEN Absent
                ELSE Present(ns_[node].attrs[CHOOSE j \in at : TRUE].value)
      [] u.kind = "style" ->
            LET st == {j \in 1..Len(ns_[node].style) : ns_[node].style[j].name = u.name}
            IN  IF st = {} THEN Absent
                ELSE Present(ns_[node].style[CHOOSE j \in st : TRUE].value)
      [] OTHER ->
            IF TextContent(ns_, node) = "" THEN Absent
            ELSE Present(TextContent(ns_, node))

\* The value the data source gives to a binding: the attribute's value, or
\* its negation with the callback value => !value.
SourceValue(item, obs) ==
    IF item.callback = "not"
    THEN (IF ToBoolean(obs[item.attribute]) THEN JFalse ELSE JTrue)
    ELSE obs[item.attribute]

\* What a conditional binding writes when its condition holds.
Marker(item) == IF item.valueIfTrue = JUndef THEN JTrue ELSE item.valueIfTrue

\* One part of a schema evaluated against the data source.
PartValue(item, obs) ==
    CASE item.k = "to" -> SourceValue(item, obs)
      [] item.k = "if" -> IF SourceValue(item, obs) \in FalsyValues THEN JFalse
                          ELSE Marker(item)
      [] OTHER -> item.v

IsSingleConditional(valueSchema) ==
    Len(valueSchema) = 1 /\ valueSchema[1].k = "if"

\* The aggregate of a schema: the raw value of a single conditional binding,
\* otherwise the parts that are not falsy joined with spaces in schema order.
Aggregate(valueSchema, obs) ==
    IF IsSingleConditional(valueSchema) THEN PartValue(valueSchema[1], obs)
    ELSE Str(JoinWithSpaces(NonFalsyStrings(
                [i \in 1..Len(valueSchema) |-> PartValue(valueSchema[i], obs)])))

\* The target holds the value, or is removed when the value is falsy.
TargetHolds(ns_, node, u, value) ==
    TargetOf(ns_, node, u) = IF value \in FalsyValues THEN Absent ELSE Present(value.s)

ChangeListeners == {i \in 1..Len(listeners) : listeners[i].kind = "change"}

\* C4: after render() or apply() and after every change notification, the
\* write target of every bound schema (attribute, text content or style
\* property) holds the aggregate of the schema against the current values of
\* the data source, and is removed when the aggregate is falsy; a schema that
\* is one conditional binding writes its raw value.
C4_TargetHoldsAggregate ==
    \A i \in ChangeListeners :
        TargetHolds(nodes, listeners[i].node, listeners[i].updater,
                    Aggregate(listeners[i].valueSchema, observable))

\* A change was delivered to a schema of several parts, literal and bound,
\* whose target now holds more than one of them.
C4_Witness ==
    /\ result.op = "change"
    /\ result.arg = 0
    /\ \E i \in ChangeListeners :
          /\ listeners[i].attribute = result.name
          /\ Len(listeners[i].valueSchema) > 1
          /\ \E j \in 1..Len(listeners[i].valueSchema) : listeners[i].valueSchema[j].k = "lit"
          /\ Len(NonFalsyStrings([j \in 1..Len(listeners[i].valueSchema) |->
                    PartValue(listeners[i].valueSchema[j], observable)])) > 1
          /\ TargetOf(nodes, listeners[i].node, listeners[i].updater).present

\* The schemas that are one conditional binding without a callback.
ConditionalListeners ==
    {i \in ChangeListeners :
        /\ IsSingleConditional(listeners[i].valueSchema)
        /\ listeners[i].valueSchema[1].callback = "none"}

\* C5: the target of a conditional binding is removed when the source value
\* is "", null, undefined or false, and present for every other value, 0
\* included; at the initial render and after every change.
C5_ConditionalZeroIsTruthy ==
    \A i \in ConditionalListeners :
        LET source == observable[listeners[i].valueSchema[1].attribute]
            target == TargetOf(nodes, listeners[i].node, listeners[i].updater)
        IN  /\ (source \in {Str(""), JNull, JUndef, JFalse}) => ~ target.present
            /\ (source = Num0) => target.present
            /\ target.present <=> (source \notin {Str(""), JNull, JUndef, JFalse})

\* The source of a conditional binding was changed to 0 and its target is
\* present.
C5_Witness ==
    /\ result.op = "change"
    /\ result.arg = 0
    /\ \E i \in ConditionalListeners :
          /\ listeners[i].valueSchema[1].attribute = result.name
          /\ observable[result.name] = Num0
          /\ TargetOf(nodes, listeners[i].node, listeners[i].updater).present

\* C10: a change notification delivered while the values of the data source
\* stay as they are leaves every bound target as it was.
C10_RedeliveryKeepsTarget ==
    [][(result'.op = "change" /\ changes' = changes + 1 /\ observable' = observable) =>
          \A i \in ChangeListeners :
              TargetOf(nodes', listeners[i].node, listeners[i].updater)
                  = TargetOf(nodes, listeners[i].node, listeners[i].updater)]_vars

\* A notification was delivered again to a schema whose target is present.
C10_Witness ==
    /\ result.op = "change"
    /\ result.arg = 1
    /\ \E i \in ChangeListeners :
          /\ listeners[i].attribute = result.name
          /\ TargetOf(nodes, listeners[i].node, listeners[i].updater).present

-----------------------------------------------------------------------------
(* Properties of Template.extend() (specification SpecExtend).             *)

\* The step is a call of Template.extend().
ExtendStep == result'.op = "extend" /\ steps' = steps + 1

\* The fragment of the last call of extend(), as extendTemplate receives it.
LastFragment == normalize(result.data)

IsElementTemplate(t) == t.hasChildren

\* The positional recursion meets a pair whose children counts differ, the
\* fragment's children list not being empty: pairs are met below the levels
\* whose fragment list is not empty and has the count of the template's.
RECURSIVE MismatchMet(_, _)
MismatchMet(t, d) ==
    /\ d.children # <<>>
    /\ \/ Len(t.children) # Len(d.children)
       \/ \E i \in 1..Len(d.children) : MismatchMet(t.children[i].tpl, d.children[i].tpl)

\* No pair met by the recursion puts text on an element template, or
\* children on a text template.
RECURSIVE KindsAgree(_, _)
KindsAgree(t, d) ==
    /\ HasText(d) => ~ IsElementTemplate(t)
    /\ (d.children # <<>>) => IsElementTemplate(t)
    /\ (d.children # <<>> /\ Len(t.children) = Len(d.children)) =>
          \A i \in 1..Len(d.children) : KindsAgree(t.children[i].tpl, d.children[i].tpl)

Keys(obj) == {obj[i].name : i \in 1..Len(obj)}

\* obj[ name ], the empty array when obj has no such key.
ArrayOf(obj, name) ==
    IF name \in Keys(obj)
    THEN obj[CHOOSE i \in 1..Len(obj) : obj[i].name = name].value
    ELSE <<>>

\* The object after is the object before with the array of every key of ext
\* followed by the array ext has for it, and the other keys as they were.
KeysExtended(before, after, ext) ==
    /\ Keys(after) = Keys(before) \cup Keys(ext)
    /\ Cardinality(Keys(after)) = Len(after)
    /\ \A name \in Keys(ext) :
          ArrayOf(after, name) = ArrayOf(before, name) \o ArrayOf(ext, name)
    /\ \A name \in Keys(before) \ Keys(ext) :
          ArrayOf(after, name) = ArrayOf(before, name)

\* Template after is template before extended with the fragment d.
RECURSIVE Extended(_, _, _)
Extended(before, after, d) ==
    /\ after.tag = before.tag
    /\ after.ns = before.ns
    /\ KeysExtended(before.attributes, after.attributes, d.attributes)
    /\ KeysExtended(before.eventListeners, after.eventListeners, d.eventListeners)
    /\ after.text = IF HasText(d) THEN Arr(before.text.items \o d.text.items)
                    ELSE before.text
    /\ Len(after.children) = Len(before.children)
    /\ \A i \in 1..Len(before.children) :
          IF d.children # <<>>
          THEN Extended(before.children[i].tpl, after.children[i].tpl, d.children[i].tpl)
          ELSE after.children[i] = before.children[i]

\* C7: when extend() succeeds, the array of every attribute key and listener
\* key of the fragment is appended to the template's array for the key (a
\* key the template lacked holds the fragment's array), the fragment's text
\* is appended to the template's text, the other keys are as they were, and
\* the i-th child is extended with the fragment's i-th child, recursively.
C7_ExtendConcatenates ==
    [][(ExtendStep /\ result'.status = "none")
          => Extended(template, template', normalize(result'.data))]_vars

\* A successful extend() with a fragment that has children and a key the
\* template had: the array of the key holds the entries of both.
C7_Witness ==
    /\ result.op = "extend"
    /\ result.status = "none"
    /\ LastFragment.children # <<>>
    /\ \E name \in Keys(LastFragment.attributes) :
          Len(ArrayOf(template.attributes, name))
              > Len(ArrayOf(LastFragment.attributes, name))

-----------------------------------------------------------------------------
(* Properties of the listeners of native events (specification SpecEvents). *)

DomListeners == {i \in 1..Len(listeners) : listeners[i].kind = "dom"}

\* Node a is node n or an ancestor of it.
RECURSIVE IsSelfOrAncestor(_, _)
IsSelfOrAncestor(a, n) ==
    IF n = 0 THEN FALSE
    ELSE IF a = n THEN TRUE
    ELSE IsSelfOrAncestor(a, nodes[n].parent)

\* The registration hears the event: it is for the event's name, on a node
\* the event passes.
Hears(l, domEvtName, target) ==
    /\ l.domEvtName = domEvtName
    /\ IsSelfOrAncestor(l.node, target)

\* The event qualifies for the registration: its key has no selector, or the
\* target is an element the (type) selector names.
Qualifies(l, target) ==
    l.hasSelector => (Len(l.domSelector) = 1 /\ nodes[target].tag = l.domSelector[1])

\* What the binding of a registration does with a qualifying event.
ActionOf(l, target) ==
    [kind |-> IF l.binding.fn THEN "call" ELSE "fire",
     name |-> l.binding.attribute, domEvt |-> target]

Occurrences(seq, x) == Cardinality({i \in 1..Len(seq) : seq[i] = x})

\* C9: a native event produces, for every registration that hears it, one
\* action (a call of the callback, or one emission of the named event, with
\* the native event) when the key has no selector or the target matches the
\* selector, and none otherwise: one action per binding of the key's array.
C9_SelectorFiltersEvents ==
    result.op = "event" =>
        LET calls  == result.data.calls
            target == result.node
            heard  == {i \in DomListeners :
                          /\ Hears(listeners[i], result.data.domEvtName, target)
                          /\ Qualifies(listeners[i], target)}
        IN  /\ Len(calls) = Cardinality(heard)
            /\ \A i \in heard :
                  Occurrences(calls, ActionOf(listeners[i], target))
                     = Cardinality({j \in heard : ActionOf(listeners[j], target)
                                                     = ActionOf(listeners[i], target)})

\* An event heard by a registration whose selector the target does not
\* match, and by registrations that act.
C9_Witness ==
    /\ result.op = "event"
    /\ result.data.calls # <<>>
    /\ \E i \in DomListeners :
          /\ Hears(listeners[i], result.data.domEvtName, result.node)
          /\ listeners[i].hasSelector
          /\ ~ Qualifies(listeners[i], result.node)
    /\ \E i \in DomListeners :
          /\ Hears(listeners[i], result.data.domEvtName, result.node)
          /\ listeners[i].hasSelector
          /\ Qualifies(listeners[i], result.node)
-----------------------------------------------------------------------------
(* Properties of arrayValueReducer (specification SpecReducer).            *)

\* The entries folded so far.
Folded == SubSeq(result.data.values, 1, result.arg)

\* C11: the fold of a list from the empty string is the entries that are not
\* falsy (false, null, undefined, ""), in order, joined by single spaces: no
\* separator leads, trails or is doubled; one entry alone is the entry
\* itself, and nothing gives the empty string.
C11_FoldJoinsNonFalsy ==
    result.op \in {"values", "reduce"} =>
        LET kept == SelectSeq(Folded, LAMBDA v : v \notin FalsyValues)
        IN  /\ JSToString(result.data.value) = JoinWithSpaces(NonFalsyStrings(Folded))
            /\ Len(kept) = 0 => result.data.value = Str("")
            /\ Len(kept) = 1 => result.data.value = kept[1]
            /\ Len(kept) > 1 => result.data.value.t = "string"

\* A whole list was folded, with a falsy entry between two that are kept.
C11_Witness ==
    /\ result.op = "reduce"
    /\ result.arg = Len(result.data.values)
    /\ result.data.values = <<Str("a"), Str(""), Str("b")>>
    /\ result.data.value = Str("a b")
-----------------------------------------------------------------------------
(* Properties of style objects (specification SpecBinding).                *)

\* The subscriptions whose write target is a style property.
StyleListeners ==
    {i \in ChangeListeners : listeners[i].updater.kind = "style"}

\* Every bound style property holds the value of its binding, and is removed
\* when the value is falsy.
BoundStylesHold ==
    \A i \in StyleListeners :
        TargetHolds(nodes, listeners[i].node, listeners[i].updater,
                    Aggregate(listeners[i].valueSchema, observable))

\* The style object of the template, when its style attribute is one.
StyleObjectOf(t) ==
    IF \E i \in 1..Len(t.attributes) :
          /\ t.attributes[i].name = "style"
          /\ Len(t.attributes[i].value) = 1
          /\ t.attributes[i].value[1].k = "style"
    THEN t.attributes[CHOOSE i \in 1..Len(t.attributes) :
                          t.attributes[i].name = "style"].value[1].styles
    ELSE <<>>

\* After a successful render() or apply(), every literal property of the
\* style object is on the element.
LiteralStylesWritten ==
    (result.op \in {"render", "apply"} /\ result.status = "none" /\ ~ HasText(template)) =>
        \A j \in 1..Len(StyleObjectOf(template)) :
            LET style == StyleObjectOf(template)[j]
            IN  (style.value.k = "lit" /\ style.value.v \notin FalsyValues) =>
                    TargetOf(nodes, result.node, getStyleUpdater(style.name))
                        = Present(style.value.v.s)

\* The names of the style properties of element n before or after the step.
StyleNames(n) ==
    {nodes[n].style[j].name : j \in 1..Len(nodes[n].style)}
        \cup {nodes'[n].style[j].name : j \in 1..Len(nodes'[n].style)}

\* Style property p of element n is bound to the attribute.
StyleBoundTo(n, p, attribute) ==
    \E i \in StyleListeners :
        /\ listeners[i].node = n
        /\ listeners[i].updater.name = p
        /\ listeners[i].attribute = attribute

\* C12: the properties of a style object are handled one by one: a literal
\* property is written by render() and apply(); a bound property holds the
\* value of its binding after render(), apply() and every change, and is
\* removed (it alone) when the value is falsy; a change notification of an
\* attribute leaves every style property that is not bound to it as it was.
C12_StylePropertiesIndependent ==
    [][/\ LiteralStylesWritten'
       /\ BoundStylesHold'
       /\ (result'.op = "change" /\ changes' = changes + 1) =>
              \A n \in 1..Len(nodes) : \A p \in StyleNames(n) :
                  (~ StyleBoundTo(n, p, result'.name)) =>
                      TargetOf(nodes', n, getStyleUpdater(p))
                          = TargetOf(nodes, n, getStyleUpdater(p))]_vars

\* A change removed a bound style property of an element that keeps a
\* literal property and a property bound to another attribute.
C12_Witness ==
    /\ result.op = "change"
    /\ result.arg = 0
    /\ \E i \in StyleListeners : \E k \in StyleListeners :
          /\ listeners[i].node = listeners[k].node
          /\ listeners[i].attribute = result.name
          /\ listeners[k].attribute # result.name
          /\ ~ TargetOf(nodes, listeners[i].node, listeners[i].updater).present
          /\ TargetOf(nodes, listeners[k].node, listeners[k].updater).present
          /\ TargetOf(nodes, listeners[i].node, getStyleUpdater("color")).present
-----------------------------------------------------------------------------
(* Properties of the subscriptions (specification SpecLife).               *)

\* What a registration is: the notification or event it is for, its node
\* and its write target or binding.
Subscription(l) ==
    IF l.kind = "change"
    THEN [kind |-> "change", on |-> l.attribute, node |-> l.node, what |-> l.updater]
    ELSE [kind |-> "dom", on |-> l.domEvtName, node |-> l.node,
          what |-> [selector |-> l.domSelector, hasSelector |-> l.hasSelector,
                    binding |-> l.binding]]

\* C13: a Template is constructed with no subscription registered; new
\* Template() and extend() register none, only render() and apply() do, and
\* no operation removes a subscription: the registrations of a state are the
\* first registrations of the next state.
C13_SubscriptionsOnlyByRenderAndApply ==
    /\ listeners = <<>>
    /\ [][/\ Len(listeners') >= Len(listeners)
           /\ \A i \in 1..Len(listeners) :
                  Subscription(listeners'[i]) = Subscription(listeners[i])
           /\ (Len(listeners') > Len(listeners)) =>
                  (result'.op \in {"render", "apply"} /\ steps' = steps + 1)]_vars

\* After a render(), an extend() or a new Template() with the subscriptions
\* to a change notification and to a native event still registered.
C13_Witness ==
    /\ result.op \in {"extend", "new"}
    /\ steps = 2
    /\ \E i \in 1..Len(listeners) : listeners[i].kind = "change"
    /\ \E i \in 1..Len(listeners) : listeners[i].kind = "dom"
-----------------------------------------------------------------------------
(* Properties of render() after extend() (specification SpecExtend).       *)

\* The values of the entries of an attribute's Array against the data
\* source, in order: those of a { ns, value } entry are the values of its
\* value.
RECURSIVE AllParts(_, _)
AllParts(items, obs) ==
    IF items = <<>> THEN <<>>
    ELSE (IF Head(items).k = "ns"
          THEN [j \in 1..Len(Head(items).value) |-> PartValue(Head(items).value[j], obs)]
          ELSE <<PartValue(Head(items), obs)>>) \o AllParts(Tail(items), obs)

IsStyleObjects(a) ==
    a.name = "style" /\ \A j \in 1..Len(a.value) : a.value[j].k = "style"

\* Element n holds the aggregate of every entry of attribute a: the style
\* properties of every style object, or the attribute with the values that
\* are not falsy joined by spaces (absent when there is none).
AttributeAggregated(id, a, obs) ==
    IF IsStyleObjects(a)
    THEN \A j \in 1..Len(a.value) : \A k \in 1..Len(a.value[j].styles) :
            LET style == a.value[j].styles[k]
            IN  TargetHolds(nodes, id, getStyleUpdater(style.name),
                            PartValue(style.value, obs))
    ELSE LET strs == NonFalsyStrings(AllParts(a.value, obs))
             n == nodes[id]
         IN  IF strs = <<>> THEN AttrsNamed(n, a) = {}
             ELSE \E j \in AttrsNamed(n, a) : n.attrs[j].value = JoinWithSpaces(strs)

\* C14: render() after a successful extend() gives every attribute of the
\* element the aggregate of the template's values followed by the
\* fragment's values, for plain, bound, namespaced and style-object
\* attributes alike.
C14_RenderAfterExtendAggregates ==
    [][(result.op = "extend" /\ result.status = "none"
            /\ result'.op = "render" /\ result'.status = "none"
            /\ steps' = steps + 1 /\ ~ HasText(template)) =>
          \A i \in 1..Len(template.attributes) :
              (AttributeAggregated(result.node, template.attributes[i],
                                   observable))']_vars
-----------------------------------------------------------------------------
(* Properties of apply() on the children (specification Spec).             *)

\* The nodes of the Views and ViewCollections among the children of t.
ViewNodes(t) ==
    {e.node : e \in {ExpectedChildren(t.children)[j] :
                         j \in {k \in 1..Len(ExpectedChildren(t.children)) :
                                    ExpectedChildren(t.children)[k].isNode}}}

\* C15: apply() applies each plain child template to the child node at the
\* child's position, the node render() made for it, and passes over the
\* nodes of Views and ViewCollections, also when they come before a plain
\* child: applied to the element render() returned, the template finds
\* every child node where it is, so that the Views' nodes are left as they
\* were and every child node still is the rendering of its child template.
C15_ApplyFollowsPositions ==
    [][(result.op = "render" /\ result.status = "none" /\ ~ HasText(template)
            /\ result'.op = "apply" /\ result'.arg = result.node
            /\ steps' = steps + 1) =>
          /\ result'.status = "none"
          /\ \A v \in ViewNodes(template) : nodes'[v] = nodes[v]
          /\ HasShape(result.node, template)']_vars
-----------------------------------------------------------------------------
(* Properties of the registrations of render() and apply() (specification  *)
(* SpecLife).                                                              *)

\* The value schemas of the attributes: the value of a namespaced
\* attribute, the value of each property of a style object, the Array of
\* any other attribute.
RECURSIVE AttributeSchemas(_)
AttributeSchemas(attributes) ==
    IF attributes = <<>> THEN <<>>
    ELSE LET a == Head(attributes)
         IN  (IF a.value # <<>> /\ a.value[1].k = "ns"
              THEN <<[schema |-> a.value[1].value,
                      updater |-> getAttributeUpdater(a.name, a.value[1].ns)]>>
              ELSE IF IsStyleObjects(a)
              THEN [k \in 1..Len(a.value[1].styles) |->
                       [schema |-> <<a.value[1].styles[k].value>>,
                        updater |-> getStyleUpdater(a.value[1].styles[k].name)]]
              ELSE <<[schema |-> a.value, updater |-> getAttributeUpdater(a.name, "")]>>)
             \o AttributeSchemas(Tail(attributes))

\* The value schemas of a template and of its plain children.
RECURSIVE ValueSchemas(_)
RECURSIVE ChildrenSchemas(_)
ChildrenSchemas(children) ==
    IF children = <<>> THEN <<>>
    ELSE (IF Head(children).kind = "template" THEN ValueSchemas(Head(children).tpl)
          ELSE <<>>) \o ChildrenSchemas(Tail(children))
ValueSchemas(t) ==
    IF HasText(t) THEN <<[schema |-> t.text.items, updater |-> getTextUpdater]>>
    ELSE AttributeSchemas(t.attributes) \o ChildrenSchemas(t.children)

\* One entry per Binding entry of every schema: the attribute it is bound to
\* and the write target of its schema.
RECURSIVE BindingEntries(_)
BindingEntries(schemas) ==
    IF schemas = <<>> THEN <<>>
    ELSE LET s == Head(schemas)
             bound == SelectSeq(s.schema, LAMBDA item : item.k \in {"to", "if"})
         IN  [j \in 1..Len(bound) |->
                 [attribute |-> bound[j].attribute, updater |-> s.updater]]
             \o BindingEntries(Tail(schemas))

\* The change subscriptions from the i-th registration on.
ChangeSubscriptionsFrom(ls, i) ==
    LET new == SelectSeq(SubSeq(ls, i, Len(ls)), LAMBDA l : l.kind = "change")
    IN  [j \in 1..Len(new) |-> [attribute |-> new[j].attribute, updater |-> new[j].updater]]

SameEntries(s1, s2) ==
    \A x \in {s1[j] : j \in 1..Len(s1)} \cup {s2[j] : j \in 1..Len(s2)} :
        Occurrences(s1, x) = Occurrences(s2, x)

\* C16: a successful render() or apply() registers one change subscription
\* for every Binding entry of every value schema of the template, whatever
\* the value of the binding and also when another entry is bound to the same
\* attribute, and none for a literal entry; a notification of an attribute
\* runs one callback (a recomputation and a write) per subscription to it.
C16_OneSubscriptionPerBinding ==
    [][/\ (result'.op \in {"render", "apply"} /\ result'.status = "none"
               /\ steps' = steps + 1) =>
              SameEntries(ChangeSubscriptionsFrom(listeners', Len(listeners) + 1),
                          BindingEntries(ValueSchemas(template)))
       /\ (result'.op = "change" /\ changes' = changes + 1) =>
              result'.data.calls
                  = Cardinality({i \in ChangeListeners :
                                    listeners[i].attribute = result'.name})]_vars

\* The template was rendered twice while the value of one of its bindings
\* is falsy, and one schema has two entries bound to the same attribute:
\* every Binding entry has two subscriptions.
C16_Witness ==
    /\ result.op \in {"render", "apply"}
    /\ result.status = "none"
    /\ steps = 2
    /\ observable.b = JUndef
    /\ LET entries == BindingEntries(ValueSchemas(template))
       IN  /\ \E i \in 1..Len(entries) : \E j \in 1..Len(entries) :
                  i # j /\ entries[i] = entries[j]
           /\ \E i \in 1..Len(entries) : entries[i].attribute = "b"
           /\ \A i \in 1..Len(entries) :
                  Occurrences(ChangeSubscriptionsFrom(listeners, 1), entries[i])
                      = 2 * Occurrences(entries, entries[i])
-----------------------------------------------------------------------------
(* Properties of TemplateIfBinding.getValue (specification SpecGetValue).  *)

\* C17: getValue() of a conditional binding returns false when the value of
\* the data source (after the callback) is falsy; otherwise the literal
\* given to if(), whatever it is (0 and the empty string too), and true when
\* none was given.
C17_ConfiguredLiteralReturned ==
    result.op = "getValue" =>
        LET binding == template.text.items[1]
            source == SourceValue(binding, observable)
        IN  result.data.value =
                IF source \in FalsyValues THEN JFalse
                ELSE IF binding.valueIfTrue # JUndef THEN binding.valueIfTrue
                ELSE JTrue
-----------------------------------------------------------------------------
(* Properties of a failing extend() (specification SpecExtend).            *)

\* C18: an extend() that fails with ChildCountMismatch leaves the template
\* and all its descendant templates as they were: no attribute, listener or
\* text array has been extended.
C18_FailedExtendLeavesTemplate ==
    [][(ExtendStep /\ result'.status = "ChildCountMismatch") =>
          template' = template]_vars
-----------------------------------------------------------------------------
(* Properties of definitions and Templates kept by reference               *)
(* (specification SpecClone).                                              *)

\* What a value is, through the references: the objects and Arrays with
\* their properties and entries.
RECURSIVE Deep(_, _)
Deep(cells, value) ==
    IF value.ref = 0
    THEN [kind |-> "item", class |-> "", names |-> <<>>, values |-> <<>>, item |-> value.item]
    ELSE [kind |-> cells[value.ref].kind, class |-> cells[value.ref].class,
          names |-> cells[value.ref].names,
          values |-> [i \in 1..Len(cells[value.ref].values) |->
                         Deep(cells, cells[value.ref].values[i])],
          item |-> Lit(JUndef)]

\* The cells a value reaches.
RECURSIVE Reach(_, _)
Reach(cells, value) ==
    IF value.ref = 0 THEN {}
    ELSE {value.ref} \cup UNION {Reach(cells, cells[value.ref].values[i]) :
                                   i \in 1..Len(cells[value.ref].values)}

\* The items of an Array of items.
ItemsOf(cells, value) ==
    [i \in 1..Len(cells[value.ref].values) |-> cells[value.ref].values[i].item]

\* The Arrays of an attributes or eventListeners object, by name.
NamedArrays(cells, value) ==
    IF ~ Truthy(value) THEN <<>>
    ELSE [i \in 1..Len(cells[value.ref].names) |->
            [name |-> cells[value.ref].names[i],
             value |-> ItemsOf(cells, cells[value.ref].values[i])]]

\* The Template a reference leads to, as the value render() works on.
RECURSIVE TemplateOf(_, _)
TemplateOf(cells, value) ==
    [tag |-> Get(cells, value, "tag").item.v,
     ns |-> JUndef,
     text |-> IF IsArray(cells, Get(cells, value, "text"))
              THEN Arr(ItemsOf(cells, Get(cells, value, "text")))
              ELSE One(Get(cells, value, "text").item),
     attributes |-> NamedArrays(cells, Get(cells, value, "attributes")),
     eventListeners |-> NamedArrays(cells, Get(cells, value, "eventListeners")),
     hasChildren |-> Truthy(Get(cells, value, "children")),
     children |->
        IF ~ Truthy(Get(cells, value, "children")) THEN <<>>
        ELSE [i \in 1..Len(cells[Get(cells, value, "children").ref].values) |->
                IF cells[Get(cells, value, "children").ref].values[i].ref = 0
                THEN ChildView(IF cells[Get(cells, value, "children").ref].values[i].item.v.s = "1"
                               THEN 1 ELSE 2)
                ELSE [kind |-> "template",
                      tpl |-> TemplateOf(cells,
                                  cells[Get(cells, value, "children").ref].values[i])]]]

\* What the caller holds: the definition and the fragments.
CallerValues(h) == <<h.def>> \o h.fragments

\* The Templates that were made.
Constructed(h) == {k \in 1..2 : h.templates[k] # JsUndefined}

\* The caller's definition and fragments and the Templates reach no object
\* or Array in common.
Separate(h) ==
    /\ \A i \in 1..Len(CallerValues(h)) : \A k \in Constructed(h) :
           Reach(h.cells, CallerValues(h)[i]) \cap Reach(h.cells, h.templates[k]) = {}
    /\ \A i, j \in 1..Len(CallerValues(h)) :
           i # j => Reach(h.cells, CallerValues(h)[i])
                       \cap Reach(h.cells, CallerValues(h)[j]) = {}
    /\ \A j, k \in Constructed(h) :
           j # k => Reach(h.cells, h.templates[j]) \cap Reach(h.cells, h.templates[k]) = {}

\* What templates[ k ] renders in the present document.
RenderedOf(cells, k) ==
    renderNode(World, TemplateOf(cells, heap.templates[k]), 0, TRUE, observable)

=============================================================================
